---- MODULE Spec2Model ----
(***************************************************************************)
(* Terminal UI controller of ssh-conn: the modal state machine, the event  *)
(* loop, the process handoff around the external ssh session, the          *)
(* background connection tests, and the ssh-config storage they use.       *)
(*                                                                         *)
(* Strings are sequences of one-character strings ("yes" is <<"y","e",     *)
(* "s">>), Option<T> is a sequence of length at most one (None is <<>>,    *)
(* Some(x) is <<x>>), and Vec indices are 0-based as in the source: the    *)
(* element with source index i is seq[i + 1].                              *)
(***************************************************************************)
EXTENDS Integers, Sequences, FiniteSets, Bags, TLC

VARIABLES
    file,               \* the Host blocks of ~/.ssh/config, as parse_ssh_config reads them
    hosts_cache,        \* ConfigManager.hosts_cache : Option<Vec<SshHost>>
    hosts,              \* the displayed list (local `hosts` of start_tui)
    selected,           \* local `selected` of start_tui
    table_state,        \* TableState selection : Option<usize>
    state,              \* UiManager.state : UiState
    pending,            \* UiManager.pending_connection_tests
    threads,            \* bag of running connection-test threads
    raw_mode,           \* terminal raw-input mode (enable_raw_mode / disable_raw_mode)
    alt_screen,         \* alternate screen (EnterAlternateScreen / LeaveAlternateScreen)
    pc,                 \* position of the UI thread
    error_count,        \* local `error_count` of main_event_loop
    exit_result,        \* how start_tui returned
    handoff,            \* locals of the handoff in progress
    frame,              \* the rows render_ui drew in this loop iteration, if it did
    last_req,           \* history: the collaborator request of this loop iteration
    resets              \* history: runs of emergency_terminal_recovery since the
                        \* last frame that was drawn

vars == <<file, hosts_cache, hosts, selected, table_state, state, pending, threads,
          raw_mode, alt_screen, pc, error_count, exit_result, handoff, frame,
          last_req, resets>>

----------------------------------------------------------------------------
(* Bounds of the model *)

\* most entries of the pending buffer
MaxPending == 2
\* most Host blocks in the config file
MaxHosts == 2

\* the input events that can wait unread during one handoff
MaxInput == 2

\* main_event_loop: const MAX_ERRORS
MAX_ERRORS == 5

----------------------------------------------------------------------------
(* Option and string helpers *)

None == <<>>
Some(x) == <<x>>
IsSome(o) == o # <<>>
Unwrap(o) == o[1]

Str1(c) == <<c>>
EmptyStr == <<>>

Lower(c) ==
    CASE c = "Y" -> "y"
      [] c = "E" -> "e"
      [] c = "S" -> "s"
      [] c = "N" -> "n"
      [] c = "T" -> "t"
      [] OTHER -> c

\* str::to_lowercase
to_lowercase(s) == [i \in 1..Len(s) |-> Lower(s[i])]

IsSpace(c) == c \in {" ", "\t"}

RECURSIVE TrimStart(_)
TrimStart(s) ==
    IF s # <<>> /\ IsSpace(Head(s)) THEN TrimStart(Tail(s)) ELSE s

RECURSIVE TrimEnd(_)
TrimEnd(s) ==
    IF s # <<>> /\ IsSpace(s[Len(s)]) THEN TrimEnd(SubSeq(s, 1, Len(s) - 1)) ELSE s

\* str::trim
trim(s) == TrimEnd(TrimStart(s))

\* str::contains(&str)
contains(s, q) ==
    \E i \in 0..(Len(s) - Len(q)) : SubSeq(s, i + 1, i + Len(q)) = q

\* String::pop
pop(s) == IF s = <<>> THEN s ELSE SubSeq(s, 1, Len(s) - 1)

Digits == <<"0", "1", "2", "3", "4", "5", "6", "7", "8", "9">>
IsDigit(c) == \E d \in 1..10 : Digits[d] = c
DigitVal(c) == (CHOOSE d \in 1..10 : Digits[d] = c) - 1

RECURSIVE DecVal(_)
DecVal(s) == IF s = <<>> THEN 0 ELSE 10 * DecVal(pop(s)) + DigitVal(s[Len(s)])

\* a parse whose upper limit is one too high
parse_u16_wide(s) ==
    LET body == IF s # <<>> /\ Head(s) = "+" THEN Tail(s) ELSE s IN
    IF body = <<>> \/ \E i \in 1..Len(body) : ~IsDigit(body[i]) THEN None
    ELSE IF DecVal(body) > 65536 THEN None
    ELSE Some(DecVal(body))

\* str::parse::<u16> : Some(value) or None (Err); an optional leading '+' is accepted
parse_u16(s) ==
    LET body == IF s # <<>> /\ Head(s) = "+" THEN Tail(s) ELSE s IN
    IF body = <<>> \/ \E i \in 1..Len(body) : ~IsDigit(body[i]) THEN None
    ELSE IF DecVal(body) > 65535 THEN None
    ELSE Some(DecVal(body))

RECURSIVE u16_to_string(_)
\* u16::to_string
u16_to_string(n) ==
    IF n < 10 THEN <<Digits[n + 1]>>
    ELSE u16_to_string(n \div 10) \o <<Digits[(n % 10) + 1]>>

----------------------------------------------------------------------------
(* Results and errors (error.rs).  A message is a sequence of text pieces. *)

Ok(v) == [ok |-> TRUE, val |-> v]
Err(e) == [ok |-> FALSE, err |-> e]

\* SshConnError variants, with the payload that Display prints
IoError(what) == [kind |-> "Io", detail |-> <<what>>]
DatabaseError == [kind |-> "Database", detail |-> <<"sqlite">>]
ConfigParse(msg) == [kind |-> "ConfigParse", detail |-> msg]
HostNotFound(h) == [kind |-> "HostNotFound", detail |-> h]
HostAlreadyExists(h) == [kind |-> "HostAlreadyExists", detail |-> h]
SshConnectionError(msg) == [kind |-> "SshConnectionError", detail |-> msg]

\* SshConnError::localized_message / Display: "<t(key)>: <payload>"
localized_message(e) ==
    CASE e.kind = "Io" -> <<"error_io">> \o e.detail
      [] e.kind = "Database" -> <<"error_database">> \o e.detail
      [] e.kind = "ConfigParse" -> <<"error_config_parse">> \o e.detail
      [] e.kind = "HostNotFound" -> <<"error_host_not_found">> \o e.detail
      [] e.kind = "HostAlreadyExists" -> <<"error_host_exists">> \o e.detail
      [] e.kind = "InvalidPort" -> <<"error_invalid_port">> \o e.detail
      [] e.kind = "SshConnectionError" -> <<"error_ssh_connection">> \o e.detail

\* i18n::t(key): the text looked up for key, never empty
t(key) == <<key>>

----------------------------------------------------------------------------
(* Profiles (models.rs) *)

Unknown == [kind |-> "Unknown", probed |-> None]
Connecting == [kind |-> "Connecting", probed |-> None]
\* Connected(duration) / Failed(message): `probed` is the profile the
\* measurement was taken for (history carried with the value)
ProbeStatus(kind, h) == [kind |-> kind, probed |-> Some(h)]

\* ConnectionStatus::display_string, as the colour of the mark
display_string(status) ==
    CASE status.kind = "Unknown" -> "white"
      [] status.kind = "Connecting" -> "yellow"
      [] status.kind = "Connected" -> "green"
      [] status.kind = "Failed" -> "red"

\* SshHost::new plus the options parse_ssh_config fills in
SshHost(host, hostname, user, port, proxy_command, identity_file) ==
    [host |-> host, hostname |-> hostname, user |-> user, port |-> port,
     proxy_command |-> proxy_command, identity_file |-> identity_file,
     connection_status |-> Unknown]

\* an option value written as "    Key value" and read back by
\* parse_ssh_config: the line is trimmed, the prefix "Key " is stripped and
\* the rest trimmed; a value that trims to nothing leaves the option unset
write_parse(opt) ==
    IF ~IsSome(opt) THEN None
    ELSE IF trim(Unwrap(opt)) = EmptyStr THEN None
    ELSE Some(trim(Unwrap(opt)))

\* the Host block add_host / edit_host append, as parse_ssh_config reads it
HostBlock(host, hostname, user, port, proxy_command, identity_file) ==
    SshHost(host, write_parse(hostname), write_parse(user), write_parse(port),
            write_parse(proxy_command), write_parse(identity_file))

----------------------------------------------------------------------------
(* utils.rs *)

validate_host(host) ==
    IF host = EmptyStr THEN Err(ConfigParse(t("host_name_empty")))
    ELSE IF \E i \in 1..Len(host) : IsSpace(host[i])
    THEN Err(ConfigParse(t("host_name_no_spaces")))
    ELSE Ok(TRUE)

validate_hostname(hostname) ==
    IF hostname = EmptyStr THEN Err(ConfigParse(t("validation.hostname_empty")))
    ELSE IF trim(hostname) # hostname
    THEN Err(ConfigParse(t("validation.hostname_whitespace")))
    ELSE IF contains(hostname, <<" ">>)
    THEN Err(ConfigParse(t("validation.hostname_spaces")))
    ELSE IF contains(hostname, <<".", ".">>)
    THEN Err(ConfigParse(t("validation.hostname_consecutive_dots")))
    ELSE IF Head(hostname) = "." \/ hostname[Len(hostname)] = "."
    THEN Err(ConfigParse(t("validation.hostname_starts_or_ends_with_dot")))
    ELSE Ok(TRUE)

\* validate_port: Ok(port) exactly for the decimal u16 values above 0
validate_port(port_str) ==
    IF port_str = EmptyStr THEN Err([kind |-> "InvalidPort", detail |-> port_str])
    ELSE IF ~IsSome(parse_u16(port_str))
    THEN Err([kind |-> "InvalidPort", detail |-> port_str])
    ELSE IF Unwrap(parse_u16(port_str)) = 0
    THEN Err([kind |-> "InvalidPort", detail |-> port_str])
    ELSE Ok(Unwrap(parse_u16(port_str)))

----------------------------------------------------------------------------
(* ConfigManager (config.rs).  cm is [file, hosts_cache]; o.fault names the  *)
(* I/O operation that fails while the current handler runs: "read" (reading  *)
(* the config file), "rewrite" (fs::write of the config file), "append"      *)
(* (opening it for append), "pw" (the password database), or "none".         *)

Faults == {"none", "read", "rewrite", "append", "pw"}

\* ConfigManager::clear_cache
clear_cache(cm) == [cm EXCEPT !.hosts_cache = None]

\* ConfigManager::parse_ssh_config
parse_ssh_config(cm, o) ==
    IF o.fault = "read" THEN Err(IoError("read")) ELSE Ok(cm.file)

\* ConfigManager::get_hosts
get_hosts(cm, o) ==
    IF IsSome(cm.hosts_cache) THEN [cm |-> cm, res |-> Ok(Unwrap(cm.hosts_cache))]
    ELSE IF ~parse_ssh_config(cm, o).ok
    THEN [cm |-> cm, res |-> parse_ssh_config(cm, o)]
    ELSE [cm |-> [cm EXCEPT !.hosts_cache = Some(parse_ssh_config(cm, o).val)],
          res |-> parse_ssh_config(cm, o)]

\* ConfigManager::host_exists
host_exists(cm, host, o) ==
    LET g == get_hosts(cm, o) IN
    IF ~g.res.ok THEN g
    ELSE [cm |-> g.cm,
          res |-> Ok(\E i \in 1..Len(g.res.val) : g.res.val[i].host = host)]

OptContainsLower(opt, q) == IsSome(opt) /\ contains(to_lowercase(Unwrap(opt)), q)

\* ConfigManager::search_hosts
search_hosts(cm, query, o) ==
    LET g == get_hosts(cm, o)
        q == to_lowercase(query)
        Match(h) == \/ contains(to_lowercase(h.host), q)
                    \/ OptContainsLower(h.hostname, q)
                    \/ OptContainsLower(h.user, q)
    IN  IF ~g.res.ok THEN g
        ELSE [cm |-> g.cm, res |-> Ok(SelectSeq(g.res.val, Match))]

\* PasswordManager::save_password / delete_password
password_db(o) == IF o.fault = "pw" THEN Err(DatabaseError) ELSE Ok(TRUE)

PortString(port) == IF IsSome(port) THEN Some(u16_to_string(Unwrap(port))) ELSE None

\* ConfigManager::add_host; a is the argument record
add_host(cm, a, o) ==
    LET ex == host_exists(cm, a.host, o) IN
    IF ~validate_host(a.host).ok THEN [cm |-> cm, res |-> validate_host(a.host)]
    ELSE IF ~validate_hostname(a.hostname).ok
    THEN [cm |-> cm, res |-> validate_hostname(a.hostname)]
    ELSE IF IsSome(a.port) /\ ~validate_port(u16_to_string(Unwrap(a.port))).ok
    THEN [cm |-> cm, res |-> validate_port(u16_to_string(Unwrap(a.port)))]
    ELSE IF ~ex.res.ok THEN ex
    ELSE IF ex.res.val THEN [cm |-> ex.cm, res |-> Err(HostAlreadyExists(a.host))]
    ELSE IF o.fault = "append" THEN [cm |-> ex.cm, res |-> Err(IoError("append"))]
    ELSE LET written ==
                 [ex.cm EXCEPT !.file = Append(@,
                     HostBlock(a.host, Some(a.hostname), a.user, PortString(a.port),
                               a.proxy_command, a.identity_file))]
         IN  IF IsSome(a.password) /\ Unwrap(a.password) # EmptyStr
                /\ ~password_db(o).ok
             THEN [cm |-> written, res |-> password_db(o)]
             ELSE [cm |-> clear_cache(written), res |-> Ok(TRUE)]

\* ConfigManager::delete_host_internal
delete_host_internal(cm, host, o) ==
    LET Keep(h) == h.host # host IN
    IF o.fault = "read" THEN [cm |-> cm, res |-> Err(IoError("read"))]
    ELSE IF o.fault = "rewrite" THEN [cm |-> cm, res |-> Err(IoError("write"))]
    ELSE [cm |-> [cm EXCEPT !.file = SelectSeq(@, Keep)], res |-> Ok(TRUE)]

\* write_ssh_option: the new value, else the original one
write_ssh_option(new_value, original_value) ==
    IF IsSome(new_value) THEN new_value ELSE original_value

\* ConfigManager::edit_host
edit_host(cm, a, o) ==
    LET g == get_hosts(cm, o)
        hs == g.res.val
        Is(h) == h.host = a.host
        orig == SelectSeq(hs, Is)[1]
        del == delete_host_internal(g.cm, a.host, o)
        written ==
            [del.cm EXCEPT !.file = Append(@,
                HostBlock(a.host,
                          write_ssh_option(a.hostname, orig.hostname),
                          write_ssh_option(a.user, orig.user),
                          write_ssh_option(PortString(a.port), orig.port),
                          write_ssh_option(a.proxy_command, orig.proxy_command),
                          write_ssh_option(a.identity_file, orig.identity_file)))]
    IN
    IF ~validate_host(a.host).ok THEN [cm |-> cm, res |-> validate_host(a.host)]
    ELSE IF IsSome(a.hostname) /\ ~validate_hostname(Unwrap(a.hostname)).ok
    THEN [cm |-> cm, res |-> validate_hostname(Unwrap(a.hostname))]
    ELSE IF IsSome(a.port) /\ ~validate_port(u16_to_string(Unwrap(a.port))).ok
    THEN [cm |-> cm, res |-> validate_port(u16_to_string(Unwrap(a.port)))]
    ELSE IF ~g.res.ok THEN g
    ELSE IF SelectSeq(hs, Is) = <<>> THEN [cm |-> g.cm, res |-> Err(HostNotFound(a.host))]
    ELSE IF ~del.res.ok THEN del
    ELSE IF o.fault = "append" THEN [cm |-> del.cm, res |-> Err(IoError("append"))]
    ELSE IF IsSome(a.password) /\ Unwrap(a.password) # EmptyStr /\ ~password_db(o).ok
    THEN [cm |-> written, res |-> password_db(o)]
    ELSE [cm |-> clear_cache(written), res |-> Ok(TRUE)]

\* ConfigManager::delete_host
delete_host(cm, host, o) ==
    LET ex == host_exists(cm, host, o)
        del == delete_host_internal(ex.cm, host, o)
    IN
    IF ~validate_host(host).ok THEN [cm |-> cm, res |-> validate_host(host)]
    ELSE IF ~ex.res.ok THEN ex
    ELSE IF ~ex.res.val THEN [cm |-> ex.cm, res |-> Err(HostNotFound(host))]
    ELSE IF ~del.res.ok THEN del
    ELSE IF ~password_db(o).ok THEN [cm |-> del.cm, res |-> password_db(o)]
    ELSE [cm |-> clear_cache(del.cm), res |-> Ok(TRUE)]

----------------------------------------------------------------------------
(* UiManager (ui.rs).  The handlers are operators on the record M of what    *)
(* the UI thread owns: [cm, hosts, selected, table_state, state, pending,    *)
(* threads, req, ret, go].  M.ret is the handler's return value, M.req the   *)
(* last request it made to a collaborator, M.go the handoff it started.      *)

\* UiState::default()
DefaultSearch == [query |-> None, show_popup |-> FALSE, input |-> EmptyStr]
DefaultDeleteConfirm == [show |-> FALSE, host |-> None, input |-> EmptyStr]
DefaultForm ==
    [show_add |-> FALSE, show_edit |-> FALSE, fields |-> <<>>, focus_index |-> 0,
     editing_field |-> FALSE, edit_host_original |-> None, error_field_index |-> None]
DefaultErrorModal == [show |-> FALSE, message |-> <<>>]
DefaultHostKeyConfirm == [show |-> FALSE, host |-> None, selection |-> 0]
DefaultUiState ==
    [search |-> DefaultSearch, delete_confirm |-> DefaultDeleteConfirm,
     form |-> DefaultForm, error_modal |-> DefaultErrorModal,
     host_key_confirm |-> DefaultHostKeyConfirm]

NoReq == [op |-> "none"]

Ret(M, r) == [M EXCEPT !.ret = r]

\* table_state.select(Some(*selected)) when hosts is non-empty, else select(None)
select_row(M) ==
    [M EXCEPT !.table_state = IF M.hosts # <<>> THEN Some(M.selected) ELSE None]

\* UiManager::show_error_message
show_error_message(M, message) ==
    [M EXCEPT !.state.error_modal = [show |-> TRUE, message |-> message]]

\* UiManager::show_error_with_field
show_error_with_field(M, message, field_index) ==
    [M EXCEPT !.state.error_modal = [show |-> TRUE, message |-> message],
              !.state.form.error_field_index = Some(field_index)]

\* the ErrorDialog closed with the Form's error marker left set
handle_error_modal_marked(M) ==
    [M EXCEPT !.state.error_modal = [show |-> FALSE, message |-> <<>>]]

\* UiManager::handle_error_modal
handle_error_modal(M) ==
    [M EXCEPT !.state.error_modal = [show |-> FALSE, message |-> <<>>],
              !.state.form.error_field_index = None]

\* a validation failure that marks the field and leaves the focus where it is
reject_field_unfocused(M, message, field_index) ==
    Ret([show_error_with_field(M, message, field_index)
            EXCEPT !.state.form.editing_field = TRUE],
        Ok(FALSE))

\* save_form_data: a validation failure marks the field, focuses it and
\* re-opens it for editing
reject_field(M, message, field_index) ==
    Ret([show_error_with_field(M, message, field_index)
            EXCEPT !.state.form.focus_index = field_index,
                   !.state.form.editing_field = TRUE],
        Ok(FALSE))

\* `if value.is_empty() { None } else { Some(&value) }`
NonEmpty(v) == IF v = EmptyStr THEN None ELSE Some(v)

\* add_host arguments that pass every field as it is, empty or not
AddArgsVerbatim(f, port) ==
    [host |-> f[1], hostname |-> f[2], user |-> Some(f[3]), port |-> port,
     proxy_command |-> Some(f[5]), identity_file |-> Some(f[6]),
     password |-> Some(f[7])]

\* the arguments save_form_data passes to add_host
AddArgs(f, port) ==
    [host |-> f[1], hostname |-> f[2], user |-> NonEmpty(f[3]), port |-> port,
     proxy_command |-> NonEmpty(f[5]), identity_file |-> NonEmpty(f[6]),
     password |-> NonEmpty(f[7])]

\* the arguments save_form_data passes to edit_host
EditArgs(f, port) ==
    [host |-> f[1], hostname |-> NonEmpty(f[2]), user |-> NonEmpty(f[3]), port |-> port,
     proxy_command |-> NonEmpty(f[5]), identity_file |-> NonEmpty(f[6]),
     password |-> NonEmpty(f[7])]

\* save_form_data, `match result { Ok(_) => ... }`: reload the list
\* a show_list that leaves the selection where it is unless `first`
show_list_unclamped(M, g, first) ==
    IF ~g.res.ok THEN Ret([M EXCEPT !.cm = g.cm], g.res)
    ELSE Ret(select_row([M EXCEPT !.cm = g.cm, !.hosts = g.res.val,
                !.selected = IF first THEN 0 ELSE @]), Ok(TRUE))

\* the list fetched as g (the result of get_hosts / search_hosts, after `?`)
\* becomes the displayed list; row 0 is selected when `first`, else the
\* selection stays, moved to the last row when it is past the end
show_list(M, g, first) ==
    IF ~g.res.ok THEN Ret([M EXCEPT !.cm = g.cm], g.res)
    ELSE Ret(select_row([M EXCEPT !.cm = g.cm, !.hosts = g.res.val,
                !.selected = IF first THEN 0
                             ELSE IF @ >= Len(g.res.val) /\ g.res.val # <<>>
                             THEN Len(g.res.val) - 1
                             ELSE @]), Ok(TRUE))

save_reload(M, o) ==
    show_list(M, get_hosts(clear_cache(M.cm), o), M.state.form.show_add)

\* the Err arm with the Form closed as after a successful save
save_failed_closing(M, e) ==
    Ret(show_error_message([M EXCEPT !.state.form = DefaultForm],
                           localized_message(e)), Ok(FALSE))

\* save_form_data, `match result { Err(e) => ... }`
save_failed(M, e) == Ret(show_error_message(M, localized_message(e)), Ok(FALSE))

\* save_form_data, `match result`: r is what add_host / edit_host returned
save_result(M, op, args, r, o) ==
    LET M1 == [M EXCEPT !.cm = r.cm, !.req = [op |-> op, args |-> args, res |-> r.res]]
    IN  IF r.res.ok THEN save_reload(M1, o) ELSE save_failed(M1, r.res.err)

\* UiManager::save_form_data
save_form_data(M, o) ==
    LET f == M.state.form.fields
        p == parse_u16(f[4])
        port == IF f[4] = EmptyStr THEN None ELSE p
    IN
    IF Len(f) < 2
    THEN Ret(show_error_message(M, t("error.error_required_fields")), Ok(FALSE))
    ELSE IF f[1] = EmptyStr THEN reject_field(M, t("error.error_required_fields"), 0)
    ELSE IF f[2] = EmptyStr THEN reject_field(M, t("error.error_required_fields"), 1)
    ELSE IF f[4] # EmptyStr /\ ~IsSome(p)
    THEN reject_field(M, t("error.error_port_format"), 3)
    ELSE IF f[4] # EmptyStr /\ Unwrap(p) = 0
    THEN reject_field(M, t("error.error_port_range"), 3)
    ELSE IF M.state.form.show_add
    THEN save_result(M, "add_host", AddArgs(f, port),
                     add_host(M.cm, AddArgs(f, port), o), o)
    ELSE save_result(M, "edit_host", EditArgs(f, port),
                     edit_host(M.cm, EditArgs(f, port), o), o)

\* a reset_form that only leaves field editing and keeps the Form shown
reset_form_kept(M) == [M EXCEPT !.state.form.editing_field = FALSE]

\* UiManager::reset_form
reset_form(M) == [M EXCEPT !.state.form = DefaultForm]

\* UiManager::move_form_focus_down
move_form_focus_down(M) ==
    LET fm == M.state.form
        n == Len(fm.fields)
        next_index == (fm.focus_index + 1) % n
    IN  IF n = 0 THEN M
        ELSE [M EXCEPT !.state.form.focus_index =
                 IF fm.show_edit /\ next_index = 0 /\ n > 1
                 THEN (next_index + 1) % n ELSE next_index]

\* a move_form_focus_up that stops at the first field instead of wrapping
move_form_focus_up_stopping(M) ==
    LET fm == M.state.form
        n == Len(fm.fields)
        prev_index == IF fm.focus_index = 0 THEN 0 ELSE fm.focus_index - 1
    IN  IF n = 0 THEN M
        ELSE [M EXCEPT !.state.form.focus_index =
                 IF fm.show_edit /\ prev_index = 0 /\ n > 1
                 THEN 1 ELSE prev_index]

\* UiManager::move_form_focus_up
move_form_focus_up(M) ==
    LET fm == M.state.form
        n == Len(fm.fields)
        prev_index == IF fm.focus_index = 0 THEN n - 1 ELSE fm.focus_index - 1
    IN  IF n = 0 THEN M
        ELSE [M EXCEPT !.state.form.focus_index =
                 IF fm.show_edit /\ prev_index = 0 /\ n > 1
                 THEN n - 1 ELSE prev_index]

\* a handle_form_enter that goes on from the last field to the first
handle_form_enter_wrapping(M) ==
    LET fm == M.state.form IN
    IF fm.editing_field
    THEN [M EXCEPT !.state.form.focus_index = (@ + 1) % Len(fm.fields),
                   !.state.form.editing_field = TRUE]
    ELSE IF fm.show_edit /\ fm.focus_index = 0
    THEN IF fm.focus_index + 1 < Len(fm.fields)
         THEN [M EXCEPT !.state.form.focus_index = @ + 1,
                        !.state.form.editing_field = TRUE]
         ELSE M
    ELSE [M EXCEPT !.state.form.editing_field = TRUE,
                   !.state.form.error_field_index =
                       IF @ = Some(fm.focus_index) THEN None ELSE @]

\* UiManager::handle_form_enter
handle_form_enter(M) ==
    LET fm == M.state.form IN
    IF fm.editing_field
    THEN IF fm.focus_index + 1 < Len(fm.fields)
         THEN [M EXCEPT !.state.form.focus_index = @ + 1,
                        !.state.form.editing_field = TRUE]
         ELSE [M EXCEPT !.state.form.editing_field = FALSE]
    ELSE IF fm.show_edit /\ fm.focus_index = 0
    THEN IF fm.focus_index + 1 < Len(fm.fields)
         THEN [M EXCEPT !.state.form.focus_index = @ + 1,
                        !.state.form.editing_field = TRUE]
         ELSE M
    ELSE [M EXCEPT !.state.form.editing_field = TRUE,
                   !.state.form.error_field_index =
                       IF @ = Some(fm.focus_index) THEN None ELSE @]

\* `fields[focus_index].value.push(c)` guarded by `focus_index < fields.len()`
push_focused(M, c) ==
    LET fm == M.state.form IN
    IF fm.focus_index < Len(fm.fields)
    THEN [M EXCEPT !.state.form.fields[fm.focus_index + 1] = Append(@, c)]
    ELSE M

\* UiManager::handle_form_input
handle_form_input(M, c) ==
    IF ~(M.state.form.show_edit /\ M.state.form.focus_index = 0)
    THEN push_focused(M, c) ELSE M

\* UiManager::handle_form_backspace
handle_form_backspace(M) ==
    LET fm == M.state.form IN
    IF fm.focus_index < Len(fm.fields) /\ ~(fm.show_edit /\ fm.focus_index = 0)
    THEN [M EXCEPT !.state.form.fields[fm.focus_index + 1] = pop(@)]
    ELSE M

\* key codes: a character key is its one-character string
SpecialKeys == {"Enter", "Esc", "Up", "Down", "Tab", "Backspace", "Left", "Right", "F1"}
IsChar(key) == key \notin SpecialKeys

\* handle_form_event, `KeyCode::Char('s')` outside editing: the Form is reset
\* when save_form_data returned Ok(true)
after_save(saved) ==
    IF ~saved.ret.ok THEN saved
    ELSE IF saved.ret.val THEN Ret(reset_form(saved), Ok(TRUE))
    ELSE Ret(saved, Ok(TRUE))

\* UiManager::handle_form_event
handle_form_event(M, key, o) ==
    LET editing == M.state.form.editing_field IN
    CASE key = "Esc" ->
            Ret(IF editing THEN [M EXCEPT !.state.form.editing_field = FALSE]
                ELSE reset_form(M), Ok(TRUE))
      [] key = "q" /\ ~editing -> Ret(reset_form(M), Ok(TRUE))
      [] key = "q" /\ editing -> Ret(push_focused(M, "q"), Ok(TRUE))
      [] key \in {"Tab", "Down"} /\ ~editing -> Ret(move_form_focus_down(M), Ok(TRUE))
      [] key = "Up" /\ ~editing -> Ret(move_form_focus_up(M), Ok(TRUE))
      [] key = "Enter" -> Ret(handle_form_enter(M), Ok(TRUE))
      [] key = "s" /\ ~editing -> after_save(save_form_data(M, o))
      [] key = "s" /\ editing -> Ret(push_focused(M, "s"), Ok(TRUE))
      [] IsChar(key) /\ key \notin {"q", "s"} /\ editing ->
            Ret(handle_form_input(M, key), Ok(TRUE))
      [] key = "Backspace" /\ editing -> Ret(handle_form_backspace(M), Ok(TRUE))
      [] OTHER -> Ret(M, Ok(TRUE))

\* the shared tail of handle_search_event(Enter) and update_search_results:
\* set the query from the trimmed text, fetch the list, select row 0
apply_search(M, text, o) ==
    LET query == trim(text)
    IN  show_list([M EXCEPT !.state.search.query =
                      IF query = EmptyStr THEN None ELSE Some(query)],
                  IF query = EmptyStr THEN get_hosts(M.cm, o)
                  ELSE search_hosts(M.cm, query, o),
                  TRUE)

\* UiManager::update_search_results
update_search_results(M, o) == apply_search(M, M.state.search.input, o)

\* a commit that takes the draft as it is, untrimmed, for the query
close_search_untrimmed(committed) ==
    IF ~committed.ret.ok THEN committed
    ELSE [committed EXCEPT !.state.search.show_popup = FALSE,
                           !.state.search.query =
                               IF committed.state.search.input = EmptyStr
                               THEN None ELSE Some(committed.state.search.input),
                           !.state.search.input = EmptyStr]

\* handle_search_event, `KeyCode::Enter` after the list was fetched
close_search(committed) ==
    IF ~committed.ret.ok THEN committed
    ELSE [committed EXCEPT !.state.search.show_popup = FALSE,
                           !.state.search.input = EmptyStr]

\* UiManager::handle_search_event
handle_search_event(M, key, o) ==
    LET typed == [M EXCEPT !.state.search.input = Append(@, key)]
        erased == [M EXCEPT !.state.search.input = pop(@)]
    IN
    CASE key = "Enter" -> close_search(apply_search(M, M.state.search.input, o))
      [] key = "Esc" ->
            Ret([M EXCEPT !.state.search.show_popup = FALSE,
                          !.state.search.input = EmptyStr], Ok(TRUE))
      [] IsChar(key) -> update_search_results(typed, o)
      [] key = "Backspace" -> update_search_results(erased, o)
      [] OTHER -> Ret(M, Ok(TRUE))

\* UiManager::reset_delete_confirm
reset_delete_confirm(M) == [M EXCEPT !.state.delete_confirm = DefaultDeleteConfirm]

\* UiManager::reload_hosts
reload_hosts(M, o) == show_list(M, get_hosts(clear_cache(M.cm), o), FALSE)

\* handle_delete_confirm_event(Enter) with the input "yes": the result of
\* delete_host is dropped (`let _ =`)
delete_result(M, host_to_delete, r, o) ==
    reload_hosts(reset_delete_confirm(
        [M EXCEPT !.cm = r.cm,
                  !.req = [op |-> "delete_host", args |-> host_to_delete,
                           res |-> r.res]]), o)

confirm_delete(M, o) ==
    delete_result(M, Unwrap(M.state.delete_confirm.host),
                  delete_host(M.cm, Unwrap(M.state.delete_confirm.host), o), o)

\* a handle_delete_confirm_event for which "y" is enough
handle_delete_confirm_event_hasty(M, key, o) ==
    CASE key = "Enter" ->
            IF to_lowercase(trim(M.state.delete_confirm.input)) \in
                   {<<"y">>, <<"y", "e", "s">>}
               /\ IsSome(M.state.delete_confirm.host)
            THEN confirm_delete(M, o)
            ELSE Ret(M, Ok(TRUE))
      [] key = "Esc" -> Ret(reset_delete_confirm(M), Ok(TRUE))
      [] IsChar(key) ->
            Ret([M EXCEPT !.state.delete_confirm.input = Append(@, key)], Ok(TRUE))
      [] key = "Backspace" ->
            Ret([M EXCEPT !.state.delete_confirm.input = pop(@)], Ok(TRUE))
      [] OTHER -> Ret(M, Ok(TRUE))

\* UiManager::handle_delete_confirm_event
handle_delete_confirm_event(M, key, o) ==
    CASE key = "Enter" ->
            IF to_lowercase(trim(M.state.delete_confirm.input)) = <<"y", "e", "s">>
               /\ IsSome(M.state.delete_confirm.host)
            THEN confirm_delete(M, o)
            ELSE Ret(M, Ok(TRUE))
      [] key = "Esc" -> Ret(reset_delete_confirm(M), Ok(TRUE))
      [] IsChar(key) ->
            Ret([M EXCEPT !.state.delete_confirm.input = Append(@, key)], Ok(TRUE))
      [] key = "Backspace" ->
            Ret([M EXCEPT !.state.delete_confirm.input = pop(@)], Ok(TRUE))
      [] OTHER -> Ret(M, Ok(TRUE))

\* UiManager::reset_host_key_confirm
reset_host_key_confirm(M) ==
    [M EXCEPT !.state.host_key_confirm = DefaultHostKeyConfirm]

\* a handler that starts a process handoff: M.go names it, and the steps of
\* exit_and_connect / handle_host_key_accept follow as actions of their own
begin_handoff(M, kind, host) == [M EXCEPT !.go = Some([kind |-> kind, host |-> host])]

\* a handle_host_key_event whose Enter accepts whatever is selected
handle_host_key_event_any_enter(M, key) ==
    LET hk == M.state.host_key_confirm IN
    CASE key = "Enter" ->
            IF IsSome(hk.host)
            THEN Ret(begin_handoff(M, "host_key", Unwrap(hk.host)), Ok(TRUE))
            ELSE Ret(reset_host_key_confirm(M), Ok(TRUE))
      [] key = "Esc" -> Ret(reset_host_key_confirm(M), Ok(TRUE))
      [] key \in {"Left", "h"} ->
            Ret([M EXCEPT !.state.host_key_confirm.selection = 0], Ok(TRUE))
      [] key \in {"Right", "l"} ->
            Ret([M EXCEPT !.state.host_key_confirm.selection = 1], Ok(TRUE))
      [] key \in {"y", "Y"} ->
            IF IsSome(hk.host)
            THEN Ret(begin_handoff(M, "host_key", Unwrap(hk.host)), Ok(TRUE))
            ELSE Ret(reset_host_key_confirm(M), Ok(TRUE))
      [] key \in {"n", "N"} -> Ret(reset_host_key_confirm(M), Ok(TRUE))
      [] OTHER -> Ret(M, Ok(TRUE))

\* UiManager::handle_host_key_event
handle_host_key_event(M, key) ==
    LET hk == M.state.host_key_confirm IN
    CASE key = "Enter" ->
            IF IsSome(hk.host) /\ hk.selection = 0
            THEN Ret(begin_handoff(M, "host_key", Unwrap(hk.host)), Ok(TRUE))
            ELSE Ret(reset_host_key_confirm(M), Ok(TRUE))
      [] key = "Esc" -> Ret(reset_host_key_confirm(M), Ok(TRUE))
      [] key \in {"Left", "h"} ->
            Ret([M EXCEPT !.state.host_key_confirm.selection = 0], Ok(TRUE))
      [] key \in {"Right", "l"} ->
            Ret([M EXCEPT !.state.host_key_confirm.selection = 1], Ok(TRUE))
      [] key \in {"y", "Y"} ->
            IF IsSome(hk.host)
            THEN Ret(begin_handoff(M, "host_key", Unwrap(hk.host)), Ok(TRUE))
            ELSE Ret(reset_host_key_confirm(M), Ok(TRUE))
      [] key \in {"n", "N"} -> Ret(reset_host_key_confirm(M), Ok(TRUE))
      [] OTHER -> Ret(M, Ok(TRUE))

\* a reset_all_ui_state that clears the committed query with the rest
reset_all_ui_state_whole(M) == [M EXCEPT !.state = DefaultUiState]

\* UiManager::reset_all_ui_state: everything but search.query
reset_all_ui_state(M) ==
    [M EXCEPT !.state = [DefaultUiState EXCEPT !.search.query = M.state.search.query]]

\* ConfigManager::try_connect_host: the profile must be in hosts_cache; then
\* o.precheck is how the test ssh ended ("ok", "host_key", "failed")
try_connect_host(cm, host, o) ==
    LET cached == IF IsSome(cm.hosts_cache) THEN Unwrap(cm.hosts_cache) ELSE <<>> IN
    IF ~\E i \in 1..Len(cached) : cached[i].host = host
    THEN [success |-> FALSE, host_key_error |-> FALSE,
          error_message |-> Some(t("host_not_exists"))]
    ELSE IF o.precheck = "ok"
    THEN [success |-> TRUE, host_key_error |-> FALSE, error_message |-> None]
    ELSE IF o.precheck = "host_key"
    THEN [success |-> FALSE, host_key_error |-> TRUE,
          error_message |-> Some(<<"stderr">>)]
    ELSE [success |-> FALSE, host_key_error |-> FALSE,
          error_message |-> Some(<<"stderr">>)]

\* handle_connect_request with the error dialog raised for every test that
\* did not succeed, a host-key mismatch included
handle_connect_request_both(M, host, o) ==
    LET r == try_connect_host(M.cm, host, o)
        M1 == [M EXCEPT !.req = [op |-> "try_connect_host", args |-> host, res |-> r]]
    IN
    IF r.host_key_error
    THEN show_error_message(
             [M1 EXCEPT !.state.host_key_confirm =
                 [show |-> TRUE, host |-> Some(host), selection |-> 0]],
             t("error.connection_failed"))
    ELSE IF ~r.success
    THEN show_error_message(M1, t("error.connection_failed"))
    ELSE begin_handoff(M1, "connect", host)

\* a handle_connect_request that goes on to the handoff after reporting a
\* failed test
handle_connect_request_eager(M, host, o) ==
    LET r == try_connect_host(M.cm, host, o)
        M1 == [M EXCEPT !.req = [op |-> "try_connect_host", args |-> host, res |-> r]]
    IN
    IF r.host_key_error
    THEN [M1 EXCEPT !.state.host_key_confirm =
             [show |-> TRUE, host |-> Some(host), selection |-> 0]]
    ELSE IF ~r.success
    THEN begin_handoff(show_error_message(M1, t("error.connection_failed")),
                       "connect", host)
    ELSE begin_handoff(M1, "connect", host)

\* UiManager::handle_connect_request
handle_connect_request(M, host, o) ==
    LET r == try_connect_host(M.cm, host, o)
        M1 == [M EXCEPT !.req = [op |-> "try_connect_host", args |-> host, res |-> r]]
    IN
    IF r.host_key_error
    THEN [M1 EXCEPT !.state.host_key_confirm =
             [show |-> TRUE, host |-> Some(host), selection |-> 0]]
    ELSE IF ~r.success
    THEN IF IsSome(r.error_message)
         THEN show_error_message(M1, t("error.connection_failed")
                                     \o Unwrap(r.error_message))
         ELSE show_error_message(M1, t("error.connection_failed"))
    ELSE begin_handoff(M1, "connect", host)

\* a show_add_form that raises the flag of the Edit Form as well when the
\* list has a profile
show_add_form_over(M) ==
    [M EXCEPT !.state.form.show_add = TRUE,
              !.state.form.show_edit = (M.hosts # <<>>),
              !.state.form.fields = [i \in 1..7 |-> EmptyStr],
              !.state.form.focus_index = 0,
              !.state.form.editing_field = FALSE]

\* UiManager::show_add_form
show_add_form(M) ==
    [M EXCEPT !.state.form.show_add = TRUE,
              !.state.form.fields = [i \in 1..7 |-> EmptyStr],
              !.state.form.focus_index = 0,
              !.state.form.editing_field = FALSE]

OrEmpty(opt) == IF IsSome(opt) THEN Unwrap(opt) ELSE EmptyStr

\* a show_edit_form that puts the focus on the identifier field
show_edit_form_first(M, host) ==
    [M EXCEPT !.state.form.show_edit = TRUE,
              !.state.form.edit_host_original = Some(host),
              !.state.form.fields =
                  <<host.host, OrEmpty(host.hostname), OrEmpty(host.user),
                    OrEmpty(host.port), OrEmpty(host.proxy_command),
                    OrEmpty(host.identity_file), EmptyStr>>,
              !.state.form.focus_index = 0,
              !.state.form.editing_field = FALSE]

\* UiManager::show_edit_form
show_edit_form(M, host) ==
    [M EXCEPT !.state.form.show_edit = TRUE,
              !.state.form.edit_host_original = Some(host),
              !.state.form.fields =
                  <<host.host, OrEmpty(host.hostname), OrEmpty(host.user),
                    OrEmpty(host.port), OrEmpty(host.proxy_command),
                    OrEmpty(host.identity_file), EmptyStr>>,
              !.state.form.focus_index = 1,
              !.state.form.editing_field = FALSE]

\* UiManager::show_delete_confirm
show_delete_confirm(M, host) ==
    [M EXCEPT !.state.delete_confirm =
        [show |-> TRUE, host |-> Some(host), input |-> EmptyStr]]

\* a show_search_popup that starts a new search: the committed query is
\* forgotten and the draft is empty
show_search_popup_fresh(M) ==
    [M EXCEPT !.state.search.show_popup = TRUE,
              !.state.search.query = None,
              !.state.search.input = EmptyStr]

\* UiManager::show_search_popup
show_search_popup(M) ==
    [M EXCEPT !.state.search.show_popup = TRUE,
              !.state.search.input =
                  IF IsSome(M.state.search.query) THEN Unwrap(M.state.search.query)
                  ELSE EmptyStr]

\* a connection-test thread: the index it was started for and its own clone
\* of the profile
ProbeThread(index, host) == [idx |-> index, host |-> host.host]

\* a start_connection_test that spawns the thread without pushing its entry
\* to the pending buffer
start_connection_test_unlisted(M, sel) ==
    IF sel >= Len(M.hosts) THEN M
    ELSE [M EXCEPT !.hosts[sel + 1].connection_status = Connecting,
                   !.threads = @ (+) SetToBag({ProbeThread(sel, M.hosts[sel + 1])})]

\* UiManager::start_connection_test
start_connection_test(M, sel) ==
    IF sel >= Len(M.hosts) THEN M
    ELSE [M EXCEPT !.hosts[sel + 1].connection_status = Connecting,
                   !.pending = Append(@, [idx |-> sel, res |-> None]),
                   !.threads = @ (+) SetToBag({ProbeThread(sel, M.hosts[sel + 1])})]

RECURSIVE test_from(_, _)
\* the loop of test_all_connections from index i on
test_from(M, i) ==
    IF i >= Len(M.hosts) THEN M ELSE test_from(start_connection_test(M, i), i + 1)

\* UiManager::test_all_connections
test_all_connections(M) == test_from(M, 0)

\* UiManager::handle_main_event; Ok(TRUE) leaves the event loop
handle_main_event(M, key, o) ==
    LET n == Len(M.hosts) IN
    CASE key = "q" -> Ret(M, Ok(TRUE))
      [] key = "Down" ->
            Ret(IF n # 0 /\ M.selected < n - 1
                THEN select_row([M EXCEPT !.selected = @ + 1]) ELSE M, Ok(FALSE))
      [] key = "Up" ->
            Ret(IF n # 0 /\ M.selected > 0
                THEN select_row([M EXCEPT !.selected = @ - 1]) ELSE M, Ok(FALSE))
      [] key = "Enter" ->
            Ret(IF n # 0 THEN handle_connect_request(M, M.hosts[M.selected + 1].host, o)
                ELSE M, Ok(FALSE))
      [] key = "a" -> Ret(show_add_form(M), Ok(FALSE))
      [] key = "e" ->
            Ret(IF n # 0 THEN show_edit_form(M, M.hosts[M.selected + 1]) ELSE M, Ok(FALSE))
      [] key = "d" ->
            Ret(IF n # 0 THEN show_delete_confirm(M, M.hosts[M.selected + 1].host)
                ELSE M, Ok(FALSE))
      [] key \in {"s", "/"} -> Ret(show_search_popup(M), Ok(FALSE))
      [] key = "t" ->
            Ret(IF n # 0 THEN start_connection_test(M, M.selected) ELSE M, Ok(FALSE))
      [] key = "T" -> Ret(IF n # 0 THEN test_all_connections(M) ELSE M, Ok(FALSE))
      [] OTHER -> Ret(M, Ok(FALSE))

RECURSIVE merge_status_clamped(_, _)
RECURSIVE merge_status(_, _)

\* the first loop with the index clamped to the list instead of checked
merge_status_clamped(hs, pend) ==
    IF pend = <<>> THEN hs
    ELSE LET e == Head(pend)
             row == IF e.idx < Len(hs) THEN e.idx + 1 ELSE Len(hs)
         IN  merge_status(IF IsSome(e.res) /\ hs # <<>>
                          THEN [hs EXCEPT ![row].connection_status = Unwrap(e.res)]
                          ELSE hs,
                          Tail(pend))

\* UiManager::update_connection_test_results, first loop: every entry that
\* carries a result and whose index is inside the list is written to the list
merge_status(hs, pend) ==
    IF pend = <<>> THEN hs
    ELSE LET e == Head(pend) IN
         merge_status(IF IsSome(e.res) /\ e.idx < Len(hs)
                      THEN [hs EXCEPT ![e.idx + 1].connection_status = Unwrap(e.res)]
                      ELSE hs,
                      Tail(pend))

\* update_connection_test_results, second loop: the entries that were written
\* are removed
merge_remaining(hs, pend) ==
    LET Kept(e) == ~(IsSome(e.res) /\ e.idx < Len(hs)) IN SelectSeq(pend, Kept)

\* UiManager::update_connection_test_results
update_connection_test_results(M) ==
    [M EXCEPT !.hosts = merge_status(M.hosts, M.pending),
              !.pending = merge_remaining(M.hosts, M.pending)]

\* the closure of thread::spawn in start_connection_test / test_all_connections,
\* from the end of test_connection on: under the buffer's lock, the first
\* entry with the thread's index gets the result
FirstWithIndex(pend, index) ==
    IF \E i \in 1..Len(pend) : pend[i].idx = index
    THEN Some(CHOOSE i \in 1..Len(pend) :
                 pend[i].idx = index /\ \A j \in 1..(i - 1) : pend[j].idx # index)
    ELSE None

\* how TcpStream::connect under the timeout ends
ConnectOutcomes == {"connected", "refused", "timeout"}

\* whether tokio::runtime::Runtime::new() gives a runtime
RuntimeOutcomes == {"ok", "failed"}

\* a test_connection that leaves the status as it is when the time is out
test_connection_pending(status, net) ==
    LET started == IF status # "Connecting" THEN "Connecting" ELSE status IN
    CASE net = "connected" -> "Connected"
      [] net = "refused" -> "Failed"
      [] net = "timeout" -> started

\* SshHost::test_connection: the kind of connection_status it ends with,
\* from the kind it starts with
test_connection(status, net) ==
    LET started == IF status # "Connecting" THEN "Connecting" ELSE status IN
    CASE net = "connected" -> "Connected"
      [] net = "refused" -> "Failed"
      [] net = "timeout" -> "Failed"

\* the closure of start_connection_test: the kind of the status it
\* publishes; its clone of the profile was taken with the status Connecting
thread_result(rt, net) ==
    IF rt = "failed" THEN "Failed" ELSE test_connection("Connecting", net)

\* the closure with the result pushed as a new entry when it completes
publish_result_pushed(pend, th, kind) ==
    Append(pend, [idx |-> th.idx, res |-> Some(ProbeStatus(kind, th.host))])

publish_result(pend, th, kind) ==
    IF IsSome(FirstWithIndex(pend, th.idx))
    THEN [pend EXCEPT ![Unwrap(FirstWithIndex(pend, th.idx))].res =
             Some(ProbeStatus(kind, th.host))]
    ELSE pend

----------------------------------------------------------------------------
(* The state machine *)

Running == pc \notin {"init", "exited"}

\* which handler process_events gives a key to
Mode(st) ==
    IF st.error_modal.show THEN "error"
    ELSE IF st.search.show_popup THEN "search"
    ELSE IF st.host_key_confirm.show THEN "host_key"
    ELSE IF st.delete_confirm.show THEN "delete"
    ELSE IF st.form.show_add \/ st.form.show_edit THEN "form"
    ELSE "main"

CurM ==
    [cm |-> [file |-> file, hosts_cache |-> hosts_cache], hosts |-> hosts,
     selected |-> selected, table_state |-> table_state, state |-> state,
     pending |-> pending, threads |-> threads, req |-> NoReq, ret |-> Ok(FALSE),
     go |-> None]

\* the variables the UI thread owns take their values from M
Commit(M) ==
    /\ file' = M.cm.file
    /\ hosts_cache' = M.cm.hosts_cache
    /\ hosts' = M.hosts
    /\ selected' = M.selected
    /\ table_state' = M.table_state
    /\ state' = M.state
    /\ pending' = M.pending
    /\ threads' = M.threads

\* no handoff is under way
NoHandoff ==
    [kind |-> "none", host |-> EmptyStr, result |-> None, log |-> <<>>, input |-> <<>>]

\* start_tui returns r and the process ends: its memory is gone, the config
\* file f and the terminal modes stay as they are; req is the collaborator
\* request of the iteration that ended the loop
ExitAfter(f, r, req) ==
    /\ pc' = "exited"
    /\ exit_result' = Some(r)
    /\ file' = f
    /\ hosts_cache' = None
    /\ hosts' = <<>>
    /\ selected' = 0
    /\ table_state' = None
    /\ state' = DefaultUiState
    /\ pending' = <<>>
    /\ threads' = EmptyBag
    /\ handoff' = NoHandoff
    /\ frame' = None
    /\ last_req' = req

Exit(f, r) == ExitAfter(f, r, NoReq)

\* the step leaves the memory of the UI thread as it is
Keep ==
    UNCHANGED <<file, hosts_cache, hosts, selected, table_state, state, pending, threads>>

TerminalError(what) == IoError(what)

P(host, hostname) == SshHost(host, Some(hostname), None, None, None, None)

\* the config files the program is started on
InitialFiles ==
    {<<>>, <<P(<<"a">>, <<"x">>)>>, <<P(<<"a">>, <<"x">>), P(<<"b">>, <<"y">>)>>}

\* the state before start_tui runs, on one of the config files `files`
InitOn(files) ==
    /\ file \in files
    /\ hosts_cache = None
    /\ hosts = <<>>
    /\ frame = None
    /\ selected = 0
    /\ table_state = None
    /\ state = DefaultUiState
    /\ pending = <<>>
    /\ threads = EmptyBag
    /\ raw_mode = FALSE
    /\ alt_screen = FALSE
    /\ pc = "init"
    /\ error_count = 0
    /\ exit_result = None
    /\ handoff = NoHandoff
    /\ last_req = NoReq
    /\ resets = 0

Init == InitOn(InitialFiles)

\* UiManager::setup_terminal; tf is the call that fails ("none",
\* "enable_raw_mode", "EnterAlternateScreen", "Terminal::new")
setup_terminal(tf) ==
    [raw |-> (tf # "enable_raw_mode"),
     alt |-> (tf \in {"none", "Terminal::new"}),
     res |-> IF tf = "none" THEN Ok(TRUE) ELSE Err(TerminalError(tf))]

SetupFailures == {"none", "enable_raw_mode", "EnterAlternateScreen", "Terminal::new"}

\* UiManager::start_tui up to the event loop
StartTui(fault, tf) ==
    LET g == get_hosts(CurM.cm, [fault |-> fault])
        M1 == [CurM EXCEPT !.cm = g.cm]
        M2 == test_all_connections(
                  select_row([M1 EXCEPT !.hosts = g.res.val, !.selected = 0]))
    IN
    /\ pc = "init"
    /\ UNCHANGED <<error_count, resets>>
    /\ IF ~g.res.ok
       THEN Exit(file, g.res) /\ UNCHANGED <<raw_mode, alt_screen>>
       ELSE IF g.res.val = <<>>
       THEN Exit(file, Ok(TRUE)) /\ UNCHANGED <<raw_mode, alt_screen>>
       ELSE /\ raw_mode' = setup_terminal(tf).raw
            /\ alt_screen' = setup_terminal(tf).alt
            /\ IF ~setup_terminal(tf).res.ok
               THEN Exit(file, setup_terminal(tf).res)
               ELSE /\ Commit(M2)
                    /\ pc' = "loop"
                    /\ UNCHANGED <<exit_result, handoff, frame, last_req>>

\* render_main_table: the rows of the frame, each with the Host cell and the
\* Status cell
render_main_table(hs) ==
    [i \in 1..Len(hs) |->
        [host |-> hs[i].host, status |-> display_string(hs[i].connection_status)]]

\* the list render_ui draws although the buffer holds results for it
drawn_hosts_unmerged(M) == M.hosts

\* main_event_loop: the list render_ui is given, which is `hosts` after
\* `self.update_connection_test_results(hosts)`
drawn_hosts(M) == update_connection_test_results(M).hosts

\* main_event_loop, the top of an iteration:
\* `self.update_connection_test_results(hosts)`, then render_ui succeeds
RenderOk ==
    /\ pc = "loop"
    /\ Commit(update_connection_test_results(CurM))
    /\ frame' = Some(render_main_table(drawn_hosts(CurM)))
    /\ pc' = "events"
    /\ resets' = 0
    /\ last_req' = NoReq
    /\ UNCHANGED <<raw_mode, alt_screen, error_count, exit_result, handoff>>

\* UiManager::reinitialize_event_system: raw mode is disabled and enabled
\* again; tf is the call that fails ("none", a call before raw mode is
\* touched: "flush", or "enable_raw_mode" after it was disabled)
reinitialize_event_system(raw, tf) ==
    CASE tf = "none" -> [raw |-> TRUE, res |-> Ok(TRUE)]
      [] tf = "enable_raw_mode" -> [raw |-> FALSE, res |-> Err(TerminalError(tf))]
      [] OTHER -> [raw |-> raw, res |-> Err(TerminalError(tf))]

ReinitFailures == {"none", "flush", "enable_raw_mode"}

\* the recovery branch with `>` in place of `>=`
recovery_continues_late(count) == count <= MAX_ERRORS

\* the recovery branch of main_event_loop: whether the loop goes on after the
\* render failure counted as number `count`
recovery_continues(count) == count < MAX_ERRORS

\* UiManager::emergency_terminal_recovery, as the number of its runs
emergency_terminal_recovery(n) == n + 1

\* main_event_loop, the top of an iteration:
\* `self.update_connection_test_results(hosts)`, then render_ui fails
RenderFail(tf) ==
    /\ pc = "loop"
    /\ error_count' = error_count + 1
    /\ resets' = emergency_terminal_recovery(resets)
    /\ UNCHANGED alt_screen
    /\ IF recovery_continues(error_count + 1)
       THEN /\ Commit(update_connection_test_results(CurM))
            /\ raw_mode' = reinitialize_event_system(raw_mode, tf).raw
            /\ last_req' = NoReq
            /\ UNCHANGED <<pc, exit_result, handoff, frame>>
       ELSE /\ Exit(file, Err(TerminalError("render")))
            /\ UNCHANGED raw_mode

\* the end of a loop iteration whose process_events returned Ok(false)
IterationEnds == pc' = "loop" /\ error_count' = 0 /\ frame' = None

IsPrefix(u, w) == Len(u) <= Len(w) /\ SubSeq(w, 1, Len(u)) = u

\* The keys the environment E presses in the current mode.  E gives, per
\* mode, the special keys, and the words the operator types into each input:
\* a character key is pressed when it continues one of these words.
KeysFor(E) ==
    LET mode == Mode(state)
        fm == state.form
    IN
    CASE mode = "error" -> E.error
      [] mode = "search" ->
            E.search \cup
            {c \in E.chars :
                \E w \in E.search_words : IsPrefix(Append(state.search.input, c), w)}
      [] mode = "host_key" -> E.host_key
      [] mode = "delete" ->
            E.delete \cup
            {c \in E.chars :
                \E w \in E.delete_words :
                    IsPrefix(Append(state.delete_confirm.input, c), w)}
      [] mode = "form" ->
            IF fm.editing_field
            THEN E.form \cup
                 {c \in E.chars :
                     /\ fm.focus_index < Len(fm.fields)
                     /\ \E w \in E.form_words[fm.focus_index] :
                            IsPrefix(Append(fm.fields[fm.focus_index + 1], c), w)}
            ELSE E.form \cup E.form_commands
      [] mode = "main" ->
            {k \in E.main :
                /\ k = "a" => Len(file) < MaxHosts
                /\ k = "t" => Len(pending) < MaxPending
                /\ k = "T" => Len(pending) + Len(hosts) <= MaxPending}

\* process_events: poll timed out, or the event read is no key event
NoKeyEvent ==
    /\ pc = "events"
    /\ IterationEnds
    /\ Keep
    /\ UNCHANGED <<raw_mode, alt_screen, exit_result, handoff, last_req, resets>>

\* process_events: event::poll or event::read fails
PollFails ==
    /\ pc = "events"
    /\ Exit(file, Err(TerminalError("poll")))
    /\ UNCHANGED <<raw_mode, alt_screen, error_count, resets>>

\* a process_events whose Form branch hands the keys the Form leaves unbound
\* on to the main list
dispatch_falling(M, key, o) ==
    LET mode == Mode(M.state) IN
    CASE mode = "error" -> Ret(handle_error_modal(M), Ok(FALSE))
      [] mode = "search" -> handle_search_event(M, key, o)
      [] mode = "host_key" -> handle_host_key_event(M, key)
      [] mode = "delete" -> handle_delete_confirm_event(M, key, o)
      [] mode = "form" ->
            IF ~M.state.form.editing_field /\ key \in {"d", "t", "T"}
            THEN handle_main_event(M, key, o)
            ELSE handle_form_event(M, key, o)
      [] mode = "main" -> handle_main_event(M, key, o)

\* process_events: the key goes to the handler of the current mode
dispatch(M, key, o) ==
    LET mode == Mode(M.state) IN
    CASE mode = "error" -> Ret(handle_error_modal(M), Ok(FALSE))
      [] mode = "search" -> handle_search_event(M, key, o)
      [] mode = "host_key" -> handle_host_key_event(M, key)
      [] mode = "delete" -> handle_delete_confirm_event(M, key, o)
      [] mode = "form" -> handle_form_event(M, key, o)
      [] mode = "main" -> handle_main_event(M, key, o)

\* The collaborator outcomes that the handling of key can meet: the storage
\* is used by the Search, DeleteConfirm and Form handlers, the test session
\* by Enter on the main list.
OutcomesFor(E, key) ==
    [fault : IF Mode(state) \in {"search", "delete", "form"} THEN E.faults ELSE {"none"},
     precheck : IF Mode(state) = "main" /\ key = "Enter" THEN E.prechecks ELSE {"ok"}]

\* process_events returns Ok(true), on which main_event_loop breaks: only
\* handle_main_event's result is returned as it is, an overlay's handler
\* makes process_events return Ok(false)
ends_loop(M) == Mode(state) = "main" /\ M.ret.ok /\ M.ret.val

\* what main_event_loop does with the outcome M of process_events: return
\* the error, start the handoff steps, leave the loop, or go on
AfterEvent(M) ==
    IF ~M.ret.ok
    THEN ExitAfter(M.cm.file, M.ret, M.req) /\ UNCHANGED error_count
    ELSE /\ Commit(M)
         /\ last_req' = M.req
         /\ frame' = None
         /\ IF IsSome(M.go)
            THEN /\ pc' = "handoff"
                 /\ handoff' = [kind |-> Unwrap(M.go).kind, host |-> Unwrap(M.go).host,
                                result |-> None, log |-> <<>>, input |-> <<>>]
                 /\ UNCHANGED <<error_count, exit_result>>
            ELSE IF ends_loop(M)
            THEN pc' = "cleanup" /\ UNCHANGED <<error_count, exit_result, handoff>>
            ELSE pc' = "loop" /\ error_count' = 0 /\ UNCHANGED <<exit_result, handoff>>

\* process_events with a key event
KeyEvent(E) ==
    /\ pc = "events"
    /\ UNCHANGED <<raw_mode, alt_screen, resets>>
    /\ \E key \in KeysFor(E) : \E o \in OutcomesFor(E, key) :
          AfterEvent(dispatch(CurM, key, o))

\* UiManager::cleanup_terminal, after the loop ended with Ok; tf is the call
\* that fails ("none", "disable_raw_mode", "LeaveAlternateScreen")
cleanup_terminal(raw, alt, tf) ==
    CASE tf = "disable_raw_mode" -> [raw |-> raw, alt |-> alt, res |-> Err(TerminalError(tf))]
      [] tf = "LeaveAlternateScreen" ->
            [raw |-> FALSE, alt |-> alt, res |-> Err(TerminalError(tf))]
      [] OTHER -> [raw |-> FALSE, alt |-> FALSE, res |-> Ok(TRUE)]

CleanupFailures == {"none", "disable_raw_mode", "LeaveAlternateScreen"}

\* start_tui after the loop: `Self::cleanup_terminal()?; Ok(())`
Cleanup(tf) ==
    /\ pc = "cleanup"
    /\ raw_mode' = cleanup_terminal(raw_mode, alt_screen, tf).raw
    /\ alt_screen' = cleanup_terminal(raw_mode, alt_screen, tf).alt
    /\ Exit(file, cleanup_terminal(raw_mode, alt_screen, tf).res)
    /\ UNCHANGED <<error_count, resets>>

\* the connection-test thread th gets its runtime or not, finishes
\* test_connection and publishes the status it ended with
ThreadCompletes(th) ==
    /\ Running
    /\ th \in BagToSet(threads)
    /\ \E rt \in RuntimeOutcomes, net \in ConnectOutcomes :
          pending' = publish_result(pending, th, thread_result(rt, net))
    /\ threads' = threads (-) SetToBag({th})
    /\ UNCHANGED <<file, hosts_cache, hosts, selected, table_state, state, raw_mode,
                   alt_screen, pc, error_count, exit_result, handoff, frame, last_req,
                   resets>>

\* one of the running connection-test threads completes
ProbeComplete == \E th \in BagToSet(threads) : ThreadCompletes(th)

----------------------------------------------------------------------------
(* The process handoff: exit_and_connect and handle_host_key_accept run the  *)
(* same statements around their external command.  handoff.log lists the     *)
(* statements that have run, each with the terminal modes it started in and  *)
(* the number of input events that waited unread; handoff.input is the       *)
(* terminal's input queue, each event named by the statement it arrived in.  *)

\* the statements with the error reported ahead of the redraw
handoff_steps_early_report ==
    <<"suspend", "external", "resume", "drain", "rebuild", "refresh", "reinit",
      "report", "redraw", "return">>

\* the statements of exit_and_connect / handle_host_key_accept, in order
handoff_steps ==
    <<"suspend", "external", "resume", "drain", "rebuild", "refresh", "reinit",
      "redraw", "report", "return">>

\* the statement the handoff is at
AtStep(step) ==
    /\ pc = "handoff"
    /\ Len(handoff.log) < Len(handoff_steps)
    /\ handoff_steps[Len(handoff.log) + 1] = step

Logged(step) ==
    [step |-> step, raw |-> raw_mode, alt |-> alt_screen, unread |-> Len(handoff.input)]

RECURSIVE drain_events(_)

\* the drain with `if` in place of `while`: one event is read
drain_events_once(queue) == IF queue # <<>> THEN Tail(queue) ELSE queue

\* `while event::poll(..)? { let _ = event::read()?; }`: events are read and
\* dropped until poll finds none
drain_events(queue) == IF queue # <<>> THEN drain_events(Tail(queue)) ELSE queue

\* the statement ran and the next one follows
StepDone(step, result) ==
    /\ handoff' = [handoff EXCEPT !.log = Append(@, Logged(step)), !.result = result]
    /\ UNCHANGED <<pc, exit_result, frame, last_req>>

\* the statement ran, its drain loop included, and the next one follows
StepDrained(step, result) ==
    /\ handoff' = [handoff EXCEPT !.log = Append(@, Logged(step)), !.result = result,
                                  !.input = drain_events(@)]
    /\ UNCHANGED <<pc, exit_result, frame, last_req>>

\* the statement failed and `?` returns the error from the handler, from
\* process_events and from main_event_loop
StepFails(tf) == Exit(file, Err(TerminalError(tf)))

SuspendFailures == {"none", "disable_raw_mode", "LeaveAlternateScreen"}

\* `disable_raw_mode()?; execute!(io::stdout(), LeaveAlternateScreen)?;`
HandoffSuspend(tf) ==
    /\ AtStep("suspend")
    /\ raw_mode' = IF tf = "disable_raw_mode" THEN raw_mode ELSE FALSE
    /\ alt_screen' = IF tf = "none" THEN FALSE ELSE alt_screen
    /\ IF tf = "none" THEN Keep /\ StepDone("suspend", handoff.result)
       ELSE StepFails(tf)
    /\ UNCHANGED <<error_count, resets>>

\* how a spawned ssh / sshpass ends
SessionOutcomes == {"exit_0", "exit_1", "exit_255", "killed", "spawn_failed"}

\* ConfigManager::execute_ssh_connection with use_exec = false
execute_ssh_connection(outcome) ==
    CASE outcome = "spawn_failed" -> Err(SshConnectionError(t("ssh_start_failed")))
      [] outcome = "exit_255" -> Err(SshConnectionError(t("ssh_connection_failed_code")))
      [] OTHER -> Ok(TRUE)

\* ConfigManager::connect_host_for_tui
connect_host_for_tui(host, outcome) ==
    IF ~validate_host(host).ok THEN validate_host(host)
    ELSE execute_ssh_connection(outcome)

\* how ssh-keygen -R ends
KeygenOutcomes == {"ok", "failed", "spawn_failed"}

\* ConfigManager::handle_host_key_verification_failed_for_tui
handle_host_key_verification_failed_for_tui(host, keygen, outcome) ==
    IF keygen = "spawn_failed"
    THEN Err(SshConnectionError(t("ssh_keygen_exec_failed")))
    ELSE execute_ssh_connection(outcome)

\* the commands handle_host_key_verification_failed_for_tui runs, in order:
\* `.status()` of ssh-keygen -R, then, unless `?` returned its error, the ssh
\* or sshpass session
host_key_commands(keygen) ==
    IF keygen = "spawn_failed" THEN <<"ssh-keygen">>
    ELSE <<"ssh-keygen", "ssh">>

\* the external command of the handoff runs to its end
HandoffExternal(keygen, outcome) ==
    /\ AtStep("external")
    /\ StepDone("external",
                Some(IF handoff.kind = "connect"
                     THEN connect_host_for_tui(handoff.host, outcome)
                     ELSE handle_host_key_verification_failed_for_tui(
                              handoff.host, keygen, outcome)))
    /\ Keep
    /\ UNCHANGED <<raw_mode, alt_screen, error_count, resets>>

ResumeFailures == {"none", "enable_raw_mode", "EnterAlternateScreen", "Clear"}

\* `enable_raw_mode()?; execute!(io::stdout(), EnterAlternateScreen)?;
\*  execute!(io::stdout(), Clear(All), MoveTo(0, 0))?;`
HandoffResume(tf) ==
    /\ AtStep("resume")
    /\ raw_mode' = IF tf = "enable_raw_mode" THEN raw_mode ELSE TRUE
    /\ alt_screen' = IF tf \in {"none", "Clear"} THEN TRUE ELSE alt_screen
    /\ IF tf = "none" THEN Keep /\ StepDone("resume", handoff.result)
       ELSE StepFails(tf)
    /\ UNCHANGED <<error_count, resets>>

\* a statement of the handoff that touches neither the UI state nor the
\* terminal modes; tf is "none" or the call that fails
HandoffPlain(step, tf) ==
    /\ AtStep(step)
    /\ IF tf = "none" THEN Keep /\ StepDone(step, handoff.result) ELSE StepFails(tf)
    /\ UNCHANGED <<raw_mode, alt_screen, error_count, resets>>

\* `while event::poll(..)? { let _ = event::read()?; }`
HandoffDrain(tf) ==
    /\ tf \in {"none", "poll"}
    /\ AtStep("drain")
    /\ IF tf = "none" THEN Keep /\ StepDrained("drain", handoff.result) ELSE StepFails(tf)
    /\ UNCHANGED <<raw_mode, alt_screen, error_count, resets>>

\* `*terminal = Terminal::new(backend)?; terminal.clear()?;`
HandoffRebuild(tf) == tf \in {"none", "Terminal::new"} /\ HandoffPlain("rebuild", tf)

\* `self.force_render_ui(terminal, hosts, table_state)?;`
HandoffRedraw(tf) == tf \in {"none", "draw"} /\ HandoffPlain("redraw", tf)

\* UiManager::refresh_after_connection; tf is the call of its own that fails
\* ("none", "disable_raw_mode", "enable_raw_mode", "poll"), rf the failure of
\* the reinitialize_event_system it calls.  A failing fetch of the list is
\* ignored (`if let Ok(..)`).
refresh_after_connection(M, raw, tf, rf, o) ==
    LET M1 == reset_all_ui_state(M)
        re == reinitialize_event_system(TRUE, rf)
        g == IF IsSome(M1.state.search.query)
             THEN search_hosts(M1.cm, Unwrap(M1.state.search.query), o)
             ELSE get_hosts(M1.cm, o)
        hs == IF g.res.ok THEN g.res.val ELSE M1.hosts
        sel == IF hs = <<>> THEN 0
               ELSE IF M1.selected >= Len(hs) THEN Len(hs) - 1 ELSE M1.selected
    IN
    CASE tf = "disable_raw_mode" -> [M |-> M, raw |-> raw, res |-> Err(TerminalError(tf))]
      [] tf = "enable_raw_mode" -> [M |-> M, raw |-> FALSE, res |-> Err(TerminalError(tf))]
      [] tf = "poll" -> [M |-> M, raw |-> TRUE, res |-> Err(TerminalError(tf))]
      [] OTHER ->
            IF ~re.res.ok THEN [M |-> M1, raw |-> re.raw, res |-> re.res]
            ELSE [M |-> select_row([M1 EXCEPT !.cm = g.cm, !.hosts = hs,
                                              !.selected = sel]),
                  raw |-> re.raw, res |-> Ok(TRUE)]

RefreshFailures == {"none", "disable_raw_mode", "enable_raw_mode", "poll"}

\* `self.refresh_after_connection(hosts, selected, table_state)?;`
Refreshed(r) ==
    /\ raw_mode' = r.raw
    /\ IF r.res.ok THEN Commit(r.M) /\ StepDrained("refresh", handoff.result)
       ELSE Exit(r.M.cm.file, r.res)

HandoffRefresh(tf, rf, fault) ==
    /\ AtStep("refresh")
    /\ Refreshed(refresh_after_connection(CurM, raw_mode, tf, rf, [fault |-> fault]))
    /\ UNCHANGED <<alt_screen, error_count, resets>>

\* `self.reinitialize_event_system()?;`
HandoffReinit(rf) ==
    LET r == reinitialize_event_system(raw_mode, rf) IN
    /\ AtStep("reinit")
    /\ raw_mode' = r.raw
    /\ IF r.res.ok THEN Keep /\ StepDrained("reinit", handoff.result)
       ELSE Exit(file, r.res)
    /\ UNCHANGED <<alt_screen, error_count, resets>>

\* the message the handoff shows for the error e of its external command
handoff_error_message(kind, e) ==
    IF kind = "connect" THEN t("error.connection_failed") \o localized_message(e)
    ELSE t("host_key_processing_failed") \o localized_message(e)

\* the handoff with the result of its external command dropped
report_result_dropped(M, kind, result) == M

\* `if let Err(e) = connection_result { self.show_error_message(..)?; }`
report_result(M, kind, result) ==
    IF result.ok THEN M
    ELSE show_error_message(M, handoff_error_message(kind, result.err))

HandoffReport ==
    /\ AtStep("report")
    /\ Commit(report_result(CurM, handoff.kind, Unwrap(handoff.result)))
    /\ StepDone("report", handoff.result)
    /\ UNCHANGED <<raw_mode, alt_screen, error_count, resets>>

\* the handoff returns Ok(()): handle_host_key_event resets HostKeyConfirm,
\* handle_main_event returns Ok(false), and the loop iteration ends
HandoffReturn ==
    /\ AtStep("return")
    /\ Commit(IF handoff.kind = "host_key" THEN reset_host_key_confirm(CurM) ELSE CurM)
    /\ handoff' = NoHandoff
    /\ IterationEnds
    /\ UNCHANGED <<raw_mode, alt_screen, exit_result, last_req, resets>>

\* an input event arrives at the terminal while a statement of the handoff
\* runs or waits to run
InputArrives ==
    /\ pc = "handoff"
    /\ Len(handoff.log) < Len(handoff_steps)
    /\ Len(handoff.input) < MaxInput
    /\ handoff' = [handoff EXCEPT !.input = Append(@, handoff_steps[Len(handoff.log) + 1])]
    /\ Keep
    /\ UNCHANGED <<raw_mode, alt_screen, pc, error_count, exit_result, frame, last_req,
                   resets>>

----------------------------------------------------------------------------
(* The environments: the keys the operator presses in each mode, the words   *)
(* typed into the inputs, and the outcomes of the collaborators.             *)

\* an operator who uses every overlay: Search for "b", DeleteConfirm with
\* "yes" or "n", an Add or Edit Form with "c" as name and address and "c" or
\* "0" as port, the HostKeyConfirm keys, and a connect on Enter
Operator ==
    [error |-> {"Enter"},
     search |-> {"Enter", "Esc", "Backspace"},
     search_words |-> {<<"b">>},
     host_key |-> {"Enter", "Esc", "Left", "Right", "y", "n"},
     delete |-> {"Enter", "Esc", "Backspace"},
     delete_words |-> {<<"y", "e", "s">>, <<"n">>},
     form |-> {"Enter", "Esc", "Tab"},
     form_words |-> [i \in 0..6 |->
                        CASE i \in {0, 1} -> {<<"c">>}
                          [] i = 3 -> {<<"c">>, <<"0">>}
                          [] OTHER -> {}],
     form_commands |-> {"s", "q"},
     chars |-> {"b", "c", "e", "n", "s", "y", "0"},
     main |-> {"q", "Down", "Up", "Enter", "a", "e", "d", "s", "F1"},
     faults |-> Faults,
     prechecks |-> {"ok", "host_key", "failed"}]

\* an operator who tests connections, filters the list and deletes profiles
Prober ==
    [Operator EXCEPT !.main = {"q", "Down", "Up", "d", "s", "t", "T"},
                     !.delete_words = {<<"y", "e", "s">>},
                     !.faults = {"none", "rewrite"}]

\* an operator who only moves the selection
Viewer == [Operator EXCEPT !.main = {"q", "Down", "Up"}]

\* The program with the operator of every overlay; no connection test
\* answers while it is watched.
Next ==
    \/ \E fault \in {"none", "read"}, tf \in SetupFailures : StartTui(fault, tf)
    \/ RenderOk
    \/ NoKeyEvent
    \/ PollFails
    \/ KeyEvent(Operator)
    \/ \E tf \in CleanupFailures : Cleanup(tf)
    \/ \E tf \in SuspendFailures : HandoffSuspend(tf)
    \/ \E keygen \in KeygenOutcomes, outcome \in SessionOutcomes :
          HandoffExternal(keygen, outcome)
    \/ \E tf \in ResumeFailures : HandoffResume(tf)
    \/ \E tf \in {"none", "poll"} : HandoffDrain(tf)
    \/ \E tf \in {"none", "Terminal::new"} : HandoffRebuild(tf)
    \/ \E tf \in RefreshFailures, rf \in ReinitFailures, fault \in {"none", "read"} :
          HandoffRefresh(tf, rf, fault)
    \/ \E rf \in ReinitFailures : HandoffReinit(rf)
    \/ \E tf \in {"none", "draw"} : HandoffRedraw(tf)
    \/ HandoffReport
    \/ HandoffReturn

Spec == Init /\ [][Next]_vars

\* The program with the operator who tests connections, and the connection
\* tests answering at any time.
NextProbe ==
    \/ \E fault \in {"none", "read"}, tf \in SetupFailures : StartTui(fault, tf)
    \/ RenderOk
    \/ NoKeyEvent
    \/ KeyEvent(Prober)
    \/ ProbeComplete
    \/ \E tf \in CleanupFailures : Cleanup(tf)

SpecProbe == Init /\ [][NextProbe]_vars

\* the connection-test threads that can be spawned on the config files
ProbeThreads ==
    UNION {{ProbeThread(i, f[k]) : i \in 0..(MaxHosts - 1), k \in 1..Len(f)} :
              f \in InitialFiles}

\* SpecProbe with the scheduling the code relies on: the event loop goes on
\* to its next merge and render, process_events returns after its poll
\* timeout at the latest, and every spawned thread runs to its end (the
\* connect is under a timeout)
SpecProbeFair ==
    /\ Init /\ [][NextProbe]_vars
    /\ WF_vars(RenderOk)
    /\ WF_vars(NoKeyEvent \/ KeyEvent(Prober))
    /\ \A th \in ProbeThreads : WF_vars(ThreadCompletes(th))

\* an operator who connects, answers HostKeyConfirm and keeps typing while
\* the external command runs
Caller == [Operator EXCEPT !.main = {"q", "Down", "Enter"}]

\* The program with the operator who connects, and input arriving at any
\* statement of a handoff.
NextInput ==
    \/ \E fault \in {"none", "read"}, tf \in SetupFailures : StartTui(fault, tf)
    \/ RenderOk
    \/ NoKeyEvent
    \/ KeyEvent(Caller)
    \/ InputArrives
    \/ \E tf \in CleanupFailures : Cleanup(tf)
    \/ \E tf \in SuspendFailures : HandoffSuspend(tf)
    \/ \E keygen \in KeygenOutcomes, outcome \in SessionOutcomes :
          HandoffExternal(keygen, outcome)
    \/ \E tf \in ResumeFailures : HandoffResume(tf)
    \/ \E tf \in {"none", "poll"} : HandoffDrain(tf)
    \/ \E tf \in {"none", "Terminal::new"} : HandoffRebuild(tf)
    \/ \E tf \in RefreshFailures, rf \in ReinitFailures, fault \in {"none", "read"} :
          HandoffRefresh(tf, rf, fault)
    \/ \E rf \in ReinitFailures : HandoffReinit(rf)
    \/ \E tf \in {"none", "draw"} : HandoffRedraw(tf)
    \/ HandoffReport
    \/ HandoffReturn

SpecInput == Init /\ [][NextInput]_vars

\* The program with a renderer that can fail on every frame.
NextRender ==
    \/ \E fault \in {"none", "read"}, tf \in SetupFailures : StartTui(fault, tf)
    \/ RenderOk
    \/ \E tf \in ReinitFailures : RenderFail(tf)
    \/ NoKeyEvent
    \/ KeyEvent(Viewer)
    \/ ProbeComplete
    \/ \E tf \in CleanupFailures : Cleanup(tf)

SpecRender == Init /\ [][NextRender]_vars

----------------------------------------------------------------------------
(* Properties *)

Overlays == {"Search", "DeleteConfirm", "Form", "ErrorDialog", "HostKeyConfirm"}

\* the overlays render_ui draws for the UI state st
Shown(st) ==
    {ov \in Overlays :
        \/ ov = "Search" /\ st.search.show_popup
        \/ ov = "DeleteConfirm" /\ st.delete_confirm.show
        \/ ov = "Form" /\ (st.form.show_add \/ st.form.show_edit)
        \/ ov = "ErrorDialog" /\ st.error_modal.show
        \/ ov = "HostKeyConfirm" /\ st.host_key_confirm.show}

\* C1 as stated: in every reachable state at most one of the overlays Search,
\* DeleteConfirm, Form, ErrorDialog and HostKeyConfirm is shown.
C1_AtMostOneOverlay == Cardinality(Shown(state)) <= 1

\* C1, amended: at most one of Search, DeleteConfirm, Form and HostKeyConfirm
\* is shown, and ErrorDialog is shown either alone or on top of the Form
\* whose save it rejected.
C1_OneOverlayUnderErrorDialog ==
    /\ Cardinality(Shown(state) \ {"ErrorDialog"}) <= 1
    /\ "ErrorDialog" \in Shown(state) => Shown(state) \subseteq {"ErrorDialog", "Form"}

\* a Form save was rejected: the Form and the ErrorDialog are both shown
C1_FormUnderErrorDialog ==
    /\ pc = "loop"
    /\ Shown(state) = {"ErrorDialog", "Form"}
    /\ state.form.fields # <<>>

\* C2 as stated: a status that came from a probe is only ever shown on the
\* profile the probe was started for.
C2_ResultOnProbedProfile ==
    \A i \in 1..Len(hosts) :
        IsSome(hosts[i].connection_status.probed)
            => Unwrap(hosts[i].connection_status.probed) = hosts[i].host

\* the completed entries of the pending buffer whose index is outside the list
StaleResults ==
    {k \in 1..Len(pending) : IsSome(pending[k].res) /\ pending[k].idx >= Len(hosts)}

\* C3: the merge step at the top of an iteration keeps every completed entry
\* whose index is outside the list, leaves the length of the list alone, and
\* changes the status of a profile only when a completed entry with that
\* profile's index is in the buffer: with nothing but out-of-range results
\* the list stays exactly as it is.
C3_StaleMergeIsNoOp ==
    [][pc = "loop" /\ pc' = "events" =>
          /\ Len(hosts') = Len(hosts)
          /\ \A i \in 1..Len(hosts) :
                hosts'[i] # hosts[i] =>
                    \E k \in 1..Len(pending) :
                        /\ pending[k].idx = i - 1
                        /\ IsSome(pending[k].res)
                        /\ hosts'[i] = [hosts[i] EXCEPT !.connection_status =
                                           Unwrap(pending[k].res)]
          /\ \A k \in StaleResults : \E j \in 1..Len(pending') :
                pending'[j] = pending[k]
          /\ (\A k \in 1..Len(pending) : IsSome(pending[k].res) => k \in StaleResults)
                => hosts' = hosts]_vars

\* the merge step has run on a list that a completed, out-of-range entry
\* does not reach
C3_StaleEntryMerged ==
    /\ pc = "events"
    /\ hosts # <<>>
    /\ threads = EmptyBag
    /\ StaleResults # {}

\* the position of statement step in the log of the handoff, 0 when it has
\* not run
Pos(step) ==
    IF \E i \in 1..Len(handoff.log) : handoff.log[i].step = step
    THEN CHOOSE i \in 1..Len(handoff.log) : handoff.log[i].step = step
    ELSE 0

\* the statements between the external command and the report all ran
Reclaimed ==
    \A step \in {"resume", "drain", "rebuild", "refresh", "reinit", "redraw"} :
        Pos(step) > Pos("external")

\* C4: whatever the external command of a handoff returned, when the handoff
\* returns to the event loop raw-input mode and the alternate screen are
\* enabled as they were before the handoff, the statements that reclaim the
\* terminal have all run, and ErrorDialog is shown, with a non-empty message,
\* exactly when the collaborator that ran the command returned an error
\* (the command could not be started, or ended with exit status 255).
C4_HandoffReturnsReclaimed ==
    [][AtStep("return") /\ pc' = "loop" =>
          /\ raw_mode' /\ alt_screen'
          /\ raw_mode' = handoff.log[1].raw
          /\ alt_screen' = handoff.log[1].alt
          /\ Pos("external") > 0 /\ Reclaimed
          /\ state'.error_modal.show <=> ~Unwrap(handoff.result).ok
          /\ state'.error_modal.show => state'.error_modal.message # <<>>]_vars

\* a handoff whose external command failed is about to return to the loop
\* with the terminal reclaimed and the error reported
C4_FailedHandoffReported ==
    /\ AtStep("return")
    /\ handoff.kind = "connect"
    /\ ~Unwrap(handoff.result).ok
    /\ state.error_modal.show
    /\ raw_mode /\ alt_screen

\* C5 as stated: once start_tui has enabled raw-input mode and entered the
\* alternate screen, whenever it returns raw-input mode is disabled and the
\* alternate screen is left.
C5_EveryReturnRestoresTerminal ==
    [][pc # "init" /\ pc' = "exited" => ~raw_mode' /\ ~alt_screen']_vars

\* C6: in every handoff the external command starts with raw-input mode off
\* and the alternate screen left, after the suspend; the resume starts after
\* the external command returned; the drain starts after the resume, with both
\* modes on again; the backend is rebuilt after the drain, the list fetched
\* after the rebuild, the redraw done after the fetch and only once; and
\* ErrorDialog is shown during a handoff only after that redraw, with both
\* modes on.
C6_HandoffOrder ==
    pc = "handoff" =>
        /\ \A i \in 1..Len(handoff.log) :
              LET e == handoff.log[i] IN
              /\ e.step = "external" => ~e.raw /\ ~e.alt /\ Pos("suspend") \in 1..(i - 1)
              /\ e.step = "resume" =>
                    Pos("external") \in 1..(i - 1) /\ IsSome(handoff.result)
              /\ e.step = "drain" => Pos("resume") \in 1..(i - 1) /\ e.raw /\ e.alt
              /\ e.step = "rebuild" => Pos("drain") \in 1..(i - 1)
              /\ e.step = "refresh" => Pos("rebuild") \in 1..(i - 1)
              /\ e.step = "redraw" =>
                    /\ Pos("refresh") \in 1..(i - 1)
                    /\ \A j \in 1..Len(handoff.log) : handoff.log[j].step = "redraw" => j = i
              /\ e.step = "report" => Pos("redraw") \in 1..(i - 1) /\ e.raw /\ e.alt
        /\ Pos("external") = 0 => handoff.result = None
        /\ state.error_modal.show => Pos("redraw") > 0 /\ raw_mode /\ alt_screen

\* a host-key handoff has run all its statements and reported the error of
\* its external command
C6_HandoffCompleted ==
    /\ pc = "handoff"
    /\ handoff.kind = "host_key"
    /\ Pos("report") = Len(handoff.log)
    /\ state.error_modal.show

\* C7: the loop counts consecutive render failures, from zero after a
\* successful render; every failure runs the reset commands; after each of
\* the first four the loop is still running, and the fifth ends the loop with
\* the render error, which nothing else does.
C7_FifthRenderFailureIsFatal ==
    /\ resets <= 5
    /\ pc = "loop" => error_count = resets /\ resets <= 4
    /\ pc \in {"events", "cleanup", "handoff"} => resets = 0
    /\ pc = "exited" /\ resets > 0 =>
          /\ resets = 5
          /\ error_count = 5
          /\ exit_result = Some(Err(TerminalError("render")))
    /\ exit_result = Some(Err(TerminalError("render"))) => resets = 5

\* the loop has ended on its fifth consecutive render failure
C7_LoopEndedByRenderFailures ==
    /\ pc = "exited"
    /\ resets = MAX_ERRORS
    /\ exit_result = Some(Err(TerminalError("render")))

\* C8 as stated: no key event ends the loop with the error of a failed read
\* of the profile list.
C8_ListFailureStaysInLoop ==
    [][pc = "events" /\ pc' = "exited" => exit_result' # Some(Err(IoError("read")))]_vars

\* C9 as stated: after a confirmed deletion whose delete_host failed,
\* ErrorDialog is shown.
C9_FailedDeleteIsShown ==
    pc = "loop" /\ last_req.op = "delete_host" /\ ~last_req.res.ok
        => state.error_modal.show

\* C10: when the add_host or edit_host of a Form save fails, the loop goes
\* on, ErrorDialog shows the error's own text, and the Form is still open in
\* the same mode with every field value as it was.
C10_FailedSaveKeepsForm ==
    [][/\ pc = "events"
       /\ last_req'.op \in {"add_host", "edit_host"}
       /\ ~last_req'.res.ok
       => /\ pc' = "loop"
          /\ state'.error_modal.show
          /\ state'.error_modal.message = localized_message(last_req'.res.err)
          /\ state'.form.fields = state.form.fields
          /\ state'.form.show_add = state.form.show_add
          /\ state'.form.show_edit = state.form.show_edit
          /\ state'.form.show_add \/ state'.form.show_edit]_vars

\* an edit was refused by the storage and the Edit Form is still open under
\* the ErrorDialog
C10_EditRefused ==
    /\ pc = "loop"
    /\ last_req.op = "edit_host"
    /\ ~last_req.res.ok
    /\ state.error_modal.show
    /\ state.form.show_edit

\* C11: in every iteration input is polled only after render_ui drew the
\* frame of that iteration, and the frame is drawn from the list after the
\* merge: every result that is in the buffer at the start of the iteration
\* with an index inside the list is shown in the frame, on the row of its
\* index.
C11_MergeThenRenderThenPoll ==
    /\ [](pc = "events" <=> IsSome(frame))
    /\ [][pc = "loop" /\ IsSome(frame') =>
             /\ Len(Unwrap(frame')) = Len(hosts)
             /\ \A k \in 1..Len(pending) :
                   IsSome(pending[k].res) /\ pending[k].idx < Len(hosts) =>
                       \E j \in 1..Len(pending) :
                           /\ pending[j].idx = pending[k].idx
                           /\ IsSome(pending[j].res)
                           /\ Unwrap(frame')[pending[k].idx + 1] =
                                 [host |-> hosts[pending[k].idx + 1].host,
                                  status |-> display_string(Unwrap(pending[j].res))]]_vars

\* input is polled in an iteration whose frame shows a result of a probe
C11_ResultInFrame ==
    /\ pc = "events"
    /\ \E i \in 1..Len(Unwrap(frame)) : Unwrap(frame)[i].status \in {"green", "red"}

\* C12: a step of a probe thread leaves the profile list, the selection, the
\* overlays and the storage as they are; in the buffer it adds and removes
\* nothing and changes at most one entry, by setting its result.  The number
\* of entries changes only in steps of the event loop: it grows when a key
\* handler or start_tui starts probes, and shrinks in the merge step.
C12_ProbeWritesOnlyItsEntry ==
    /\ [][threads' # threads /\ pc' = pc =>
             /\ UNCHANGED <<file, hosts_cache, hosts, selected, table_state, state>>
             /\ Len(pending') = Len(pending)
             /\ \A k \in 1..Len(pending) :
                   /\ pending'[k].idx = pending[k].idx
                   /\ pending'[k] # pending[k] => IsSome(pending'[k].res)
             /\ Cardinality({k \in 1..Len(pending) : pending'[k] # pending[k]}) <= 1]_vars
    /\ [][/\ Len(pending') > Len(pending) => pc \in {"init", "events"} /\ pc' = "loop"
          /\ Len(pending') < Len(pending) =>
                pc' = "exited" \/ (pc = "loop" /\ pc' = "events")]_vars

\* a probe thread has published a result that the loop has not merged yet:
\* the row of the profile still shows the status the loop gave it
C12_ResultPublished ==
    /\ pc = "events"
    /\ \E k \in 1..Len(pending) :
          /\ IsSome(pending[k].res)
          /\ pending[k].idx < Len(hosts)
          /\ hosts[pending[k].idx + 1].connection_status = Connecting

\* C13 as stated: the merge step removes every entry that carries a result,
\* also one whose index is outside the list, so that after the merge step no
\* completed entry is left in the buffer.
C13_MergeRemovesCompleted ==
    [][pc = "loop" /\ pc' = "events" =>
          \A j \in 1..Len(pending') : ~IsSome(pending'[j].res)]_vars

\* C14 as stated: the status of a profile that is in the displayed list
\* before and after a step changes only to Connecting, when a handler of the
\* main list or start_tui starts a probe, or to Connected / Failed, when the
\* merge step writes a result.
C14_StatusChangesOnlyByProbe ==
    [][\A i \in 1..Len(hosts) : \A j \in 1..Len(hosts') :
          /\ hosts'[j].host = hosts[i].host
          /\ hosts'[j].connection_status # hosts[i].connection_status
          => \/ /\ pc = "events" /\ Mode(state) = "main"
                /\ hosts'[j].connection_status = Connecting
             \/ /\ pc = "loop"
                /\ hosts'[j].connection_status.kind \in {"Connected", "Failed"}]_vars

\* the key codes of the keyboard: the special keys, every character that
\* some handler binds, and characters that no handler binds
AllKeys ==
    SpecialKeys \cup
    {"q", "a", "e", "d", "s", "/", "t", "T", "y", "Y", "n", "N", "h", "l",
     "b", "c", "0", "x"}

\* every outcome of the storage and of the test session
AllOutcomes == [fault : Faults, precheck : {"ok", "host_key", "failed"}]

\* R is the state of the UI thread with the ErrorDialog closed, its message
\* and the Form's error marker cleared, and nothing else done
DismissedOnly(R) ==
    /\ R.ret.ok /\ ~ends_loop(R)
    /\ R.go = None /\ R.req = NoReq
    /\ R.state = [state EXCEPT !.error_modal = [show |-> FALSE, message |-> <<>>],
                               !.form.error_field_index = None]
    /\ R.hosts = hosts /\ R.selected = selected /\ R.table_state = table_state
    /\ R.cm = [file |-> file, hosts_cache |-> hosts_cache]
    /\ R.pending = pending /\ R.threads = threads

\* C15: while ErrorDialog is shown, every key, with every outcome the
\* collaborators could have, closes the ErrorDialog, clears its message and
\* the Form's error marker, and does nothing else: the other overlays, the
\* Form's fields, focus and editing flag, the list, the selection, the
\* storage and the probes stay as they are, and no request is made.
C15_ErrorDialogSwallowsKey ==
    pc = "events" /\ state.error_modal.show =>
        \A key \in AllKeys : \A o \in AllOutcomes :
            DismissedOnly(dispatch(CurM, key, o))

\* a key is awaited while ErrorDialog is shown over a Form with a marked field
C15_ErrorOverMarkedForm ==
    /\ pc = "events"
    /\ state.error_modal.show
    /\ state.form.show_add
    /\ state.form.error_field_index # None
    /\ state.form.editing_field

\* the characters among the key codes
CharKeys == {key \in AllKeys : IsChar(key)}

\* the keys the handler of the mode of UI state st has a binding for
Bound(st) ==
    CASE Mode(st) = "error" -> AllKeys
      [] Mode(st) = "search" -> {"Enter", "Esc", "Backspace"} \cup CharKeys
      [] Mode(st) = "host_key" ->
            {"Enter", "Esc", "Left", "Right", "h", "l", "y", "Y", "n", "N"}
      [] Mode(st) = "delete" -> {"Enter", "Esc", "Backspace"} \cup CharKeys
      [] Mode(st) = "form" ->
            IF st.form.editing_field
            THEN {"Esc", "Enter", "Backspace"} \cup CharKeys
            ELSE {"Esc", "q", "Tab", "Down", "Up", "Enter", "s"}
      [] Mode(st) = "main" ->
            {"q", "Down", "Up", "Enter", "a", "e", "d", "s", "/", "t", "T"}

\* R is the state of the UI thread as it is now, with nothing done
Untouched(R) ==
    /\ R.ret.ok /\ ~ends_loop(R)
    /\ R.go = None /\ R.req = NoReq
    /\ R.state = state
    /\ R.hosts = hosts /\ R.selected = selected /\ R.table_state = table_state
    /\ R.cm = [file |-> file, hosts_cache |-> hosts_cache]
    /\ R.pending = pending /\ R.threads = threads

\* R, the outcome of key, is the work of the handler of the current mode alone
OwnedByMode(key, R) ==
    /\ ends_loop(R) => Mode(state) = "main" /\ key = "q"
    /\ key \notin Bound(state) => Untouched(R)
    /\ Mode(state) # "main" =>
          /\ R.threads = threads /\ Len(R.pending) = Len(pending)
          /\ Shown(R.state) \subseteq (Shown(state) \cup {"ErrorDialog"})
          /\ R.req.op # "try_connect_host"
          /\ IsSome(R.go) => Mode(state) = "host_key"
          /\ Mode(state) \in {"error", "host_key"} =>
                R.hosts = hosts /\ R.selected = selected

\* C16: whenever a key is awaited, every key has an outcome; while an overlay
\* is shown no key starts a probe, opens another overlay, requests a
\* connection test, moves the selection of the main list or leaves the loop;
\* a key the active mode has no binding for leaves the whole state as it is;
\* and the loop is left normally only by the key q with no overlay shown.
C16_OneModeOwnsKeys ==
    pc = "events" =>
        \A key \in AllKeys : \A o \in OutcomesFor(Operator, key) :
            OwnedByMode(key, dispatch(CurM, key, o))

\* a key is awaited in the DeleteConfirm overlay, where the main list's keys
\* q, a, e, d, s, t are characters of the input
C16_OverlayOwnsInput ==
    /\ pc = "events"
    /\ Mode(state) = "delete"
    /\ state.delete_confirm.input = <<"y", "e">>

\* R is reached with no storage request, no handoff request and no error
Quiet(R) ==
    /\ R.ret.ok /\ R.req = NoReq /\ R.go = None
    /\ R.cm = [file |-> file, hosts_cache |-> hosts_cache]

\* no overlay is shown in R, which was reached quietly
Within0(R) == Quiet(R) /\ Shown(R.state) = {}

\* at most one, two, three presses of Esc lead from R to no overlay
Within1(R, o) == Quiet(R) /\ (Shown(R.state) = {} \/ Within0(dispatch(R, "Esc", o)))

Within2(R, o) == Quiet(R) /\ (Shown(R.state) = {} \/ Within1(dispatch(R, "Esc", o), o))

Within3(R, o) == Quiet(R) /\ (Shown(R.state) = {} \/ Within2(dispatch(R, "Esc", o), o))

\* C17: whenever a key is awaited, at most three presses of Esc lead to the
\* state with no overlay shown, whatever the storage would answer, with no
\* storage request, no handoff request and no error on the way.
C17_ThreeEscapesReachMain ==
    pc = "events" => \A o \in AllOutcomes : Within3(CurM, o)

\* three presses are needed: the ErrorDialog over a Form whose field is edited
C17_ThreePressesNeeded ==
    /\ pc = "events"
    /\ \A o \in AllOutcomes : Within3(CurM, o) /\ ~Within2(CurM, o)

\* the keys that open the Search overlay from the main list
SearchKeys == {"s", "/"}

\* R, reached by closing the Search overlay, shows the list, the selection
\* and the committed query of the current state, and no overlay
SearchLeftAsFound(R) ==
    /\ R.ret.ok /\ Shown(R.state) = {}
    /\ R.state.search.query = state.search.query
    /\ R.hosts = hosts
    /\ R.selected = selected /\ R.table_state = table_state

\* R is the current state with the Search overlay opened, and Esc leads
\* from it back to what was displayed
OpenedThenClosed(R, o) ==
    /\ R.ret.ok /\ Shown(R.state) = {"Search"}
    /\ SearchLeftAsFound(dispatch(R, "Esc", o))

\* C18: whenever a key is awaited with no overlay shown, opening the Search
\* overlay and pressing Esc at once leaves the committed query, the displayed
\* list and the selection as they were, whether a query is committed or not.
C18_OpenAndCancelSearch ==
    pc = "events" /\ Mode(state) = "main" =>
        \A key \in SearchKeys : \A o \in AllOutcomes :
            OpenedThenClosed(dispatch(CurM, key, o), o)

\* a key is awaited on a list filtered by a committed query, with a row
\* other than the first selected
C18_CommittedQueryShown ==
    /\ pc = "events" /\ Mode(state) = "main"
    /\ IsSome(state.search.query)
    /\ selected > 0

\* the drafts committed: empty, blank, a word, a word between blanks, two
\* letters
Drafts == {<<>>, <<" ">>, <<"b">>, <<" ", "b">>, <<"b", " ">>, <<"b", "c">>}

\* R is the Search overlay, opened with the draft q
ReopenedWith(R, q) ==
    /\ R.ret.ok /\ Shown(R.state) = {"Search"}
    /\ R.state.search.input = q

\* R, the outcome of committing draft, has closed the overlay with the
\* trimmed draft as the query, none when that is empty, and reopening the
\* overlay from R gives the query as the draft
CommittedThenReopened(R, draft, o) ==
    R.ret.ok =>
        /\ Shown(R.state) = {}
        /\ R.state.search.query =
              (IF trim(draft) = EmptyStr THEN None ELSE Some(trim(draft)))
        /\ \A key \in SearchKeys : ReopenedWith(dispatch(R, key, o), trim(draft))

DraftKeys == CharKeys \cup {"Backspace"}

\* R, reached by cancelling the Search overlay, has the query of the current
\* state
CancelledKeepsQuery(R) == R.ret.ok /\ R.state.search.query = state.search.query

\* R, the outcome of the draft key, has the edited draft and the query of
\* the current state, and Esc leads from it to a state with that query
DraftOnly(key, R, o) ==
    R.ret.ok =>
        /\ R.state.search.input =
              (IF key = "Backspace" THEN pop(state.search.input)
               ELSE Append(state.search.input, key))
        /\ R.state.search.query = state.search.query
        /\ CancelledKeepsQuery(dispatch(R, "Esc", o))

\* C20: whenever a key is awaited in the Search overlay, typing or deleting
\* a character changes the draft and leaves the committed query as it is,
\* and so does cancelling with Esc after it.
C20_TypingKeepsCommittedQuery ==
    pc = "events" /\ Mode(state) = "search" =>
        \A key \in DraftKeys : \A o \in AllOutcomes :
            DraftOnly(key, dispatch(CurM, key, o), o)

\* port texts that denote an integer in 1..65535
GoodPorts ==
    {<<"1">>, <<"2", "2">>, <<"6", "5", "5", "3", "5">>, <<"0", "8", "0">>}

\* port texts that do not: zero, too large, negative, not a number
BadPorts ==
    {<<"0">>, <<"6", "5", "5", "3", "6">>, <<"9", "9", "9", "9", "9", "9", "9">>,
     <<"-", "1">>, <<"a", "b", "c">>, <<"c">>, <<"1", "x">>, <<" ", "1">>}

PortTexts == {EmptyStr} \cup GoodPorts \cup BadPorts

\* the outcomes a save can meet: every answer of the storage
SaveOutcomes == {o \in AllOutcomes : o.precheck = "ok"}

\* the Form of the current state with id, addr and port as the values of
\* the identifier, address and port fields
FormWith(id, addr, port) ==
    [CurM EXCEPT !.state.form.fields[1] = id,
                 !.state.form.fields[2] = addr,
                 !.state.form.fields[4] = port]

\* the identifiers a Form can hold: any text when adding, the profile's when
\* editing
IdTexts ==
    IF state.form.show_add THEN {EmptyStr, <<"c">>, state.form.fields[1]}
    ELSE {state.form.fields[1]}

\* the index of the first field a save refuses, -1 when there is none
FirstOffending(f) ==
    IF f[1] = EmptyStr THEN 0
    ELSE IF f[2] = EmptyStr THEN 1
    ELSE IF f[4] \in BadPorts THEN 3
    ELSE -1

\* R, the outcome of a save on M0, is M0 with the field idx focused, edited
\* and marked under the ErrorDialog, and with no request made
SaveRefused(M0, R, idx) ==
    /\ R.ret.ok /\ ~ends_loop(R)
    /\ R.req = NoReq /\ R.go = None /\ R.cm = M0.cm
    /\ R.hosts = M0.hosts /\ R.selected = M0.selected
    /\ R.state.error_modal.show
    /\ R.state.form = [M0.state.form EXCEPT !.focus_index = idx,
                                            !.editing_field = TRUE,
                                            !.error_field_index = Some(idx)]

\* C21: whenever a key is awaited in a Form outside field editing, a save
\* with an empty identifier, an empty address or a port that is neither
\* empty nor in 1..65535 makes no storage request, keeps the Form open with
\* its field values, and focuses, edits and marks the first offending field.
C21_InvalidSaveKeepsForm ==
    pc = "events" /\ Mode(state) = "form" /\ ~state.form.editing_field =>
        \A id \in IdTexts : \A addr \in {EmptyStr, <<"c">>} : \A port \in PortTexts :
            FirstOffending(FormWith(id, addr, port).state.form.fields) # -1 =>
                \A o \in SaveOutcomes :
                    SaveRefused(FormWith(id, addr, port),
                                dispatch(FormWith(id, addr, port), "s", o),
                                FirstOffending(FormWith(id, addr, port).state.form.fields))

\* a save of an Add Form with port "0" was refused: the port field is
\* focused, edited and marked under the ErrorDialog
C21_PortZeroRefused ==
    /\ pc = "events" /\ state.error_modal.show
    /\ state.form.show_add
    /\ state.form.fields[4] = <<"0">>
    /\ state.form.focus_index = 3 /\ state.form.editing_field
    /\ state.form.error_field_index = Some(3)
    /\ last_req = NoReq

\* the integer a good port text denotes
PortValue(text) ==
    CASE text = <<"1">> -> 1
      [] text = <<"2", "2">> -> 22
      [] text = <<"6", "5", "5", "3", "5">> -> 65535
      [] text = <<"0", "8", "0">> -> 80

\* R, the outcome of a save, has asked the storage to add or edit a profile
\* with the port argument port
SavedWithPort(R, port) ==
    /\ R.req.op \in {"add_host", "edit_host"}
    /\ R.req.args.port = port

\* the save of the Form with port as its port text, and a valid identifier
\* and address, does with the port what the claim says
PortDecided(M0, R, port) ==
    /\ port \in GoodPorts =>
          /\ validate_port(port) = Ok(PortValue(port))
          /\ SavedWithPort(R, Some(PortValue(port)))
    /\ port \in BadPorts =>
          /\ ~validate_port(port).ok
          /\ SaveRefused(M0, R, 3)
    /\ port = EmptyStr =>
          /\ ~validate_port(port).ok
          /\ SavedWithPort(R, None)

\* C22: a non-empty port text is accepted, by validate_port and by the Form
\* save alike, exactly when it denotes an integer in 1..65535; the save
\* passes that integer to the storage, and takes the empty text as no port.
C22_PortBoundary ==
    pc = "events" /\ Mode(state) = "form" /\ ~state.form.editing_field =>
        \A port \in PortTexts : \A o \in SaveOutcomes :
            PortDecided(FormWith(<<"c">>, <<"c">>, port),
                        dispatch(FormWith(<<"c">>, <<"c">>, port), "s", o), port)

\* the save of a Form with port "0" was refused as out of range, as
\* validate_port refuses it
C22_ZeroOutOfRange ==
    /\ pc = "events" /\ state.error_modal.show
    /\ state.error_modal.message = t("error.error_port_range")
    /\ Shown(state) = {"Form", "ErrorDialog"}
    /\ state.form.fields[4] = <<"0">>
    /\ ~validate_port(state.form.fields[4]).ok

\* the texts of the scenario
Box1 == <<"b", "o", "x", "1">>
Addr1 == <<"1", "0", ".", "0", ".", "0", ".", "5">>

\* Add Forms that pass validation: the scenario, one with every field
\* filled, and one for each optional field filled alone
ValidAddForms ==
    {<<Box1, Addr1, <<>>, <<>>, <<>>, <<>>, <<>> >>,
     <<Box1, Addr1, <<"u">>, <<"2", "2">>, <<"p">>, <<"i">>, <<"w">> >>,
     <<Box1, Addr1, <<"u">>, <<>>, <<>>, <<>>, <<>> >>,
     <<Box1, Addr1, <<>>, <<"2", "2">>, <<>>, <<>>, <<>> >>,
     <<Box1, Addr1, <<>>, <<>>, <<"p">>, <<>>, <<>> >>,
     <<Box1, Addr1, <<>>, <<>>, <<>>, <<"i">>, <<>> >>,
     <<Box1, Addr1, <<>>, <<>>, <<>>, <<>>, <<"w">> >>}

\* the argument for a field value: none when it is empty
ArgOf(v) == IF Len(v) = 0 THEN <<>> ELSE <<v>>

\* R, the outcome of saving the Add Form with fields f, has made the
\* add_host request for f
AddRequested(R, f) ==
    /\ R.req.op = "add_host"
    /\ R.req.args =
          [host |-> f[1], hostname |-> f[2], user |-> ArgOf(f[3]),
           port |-> IF f[4] = <<>> THEN <<>> ELSE <<22>>,
           proxy_command |-> ArgOf(f[5]), identity_file |-> ArgOf(f[6]),
           password |-> ArgOf(f[7])]
    /\ f = <<Box1, Addr1, <<>>, <<>>, <<>>, <<>>, <<>> >> =>
          R.req.args = [host |-> Box1, hostname |-> Addr1, user |-> None,
                        port |-> None, proxy_command |-> None,
                        identity_file |-> None, password |-> None]

\* the Add Form of the current state with f as its field values
AddFormWith(f) == [CurM EXCEPT !.state.form.fields = f]

\* C23: whenever a key is awaited in an Add Form outside field editing, the
\* save of valid fields asks the storage for add_host with the first two
\* fields as identifier and address and each other argument none when its
\* field is empty and the field's value otherwise.
C23_AddRequestFromFields ==
    pc = "events" /\ Mode(state) = "form" /\ state.form.show_add
                  /\ ~state.form.editing_field =>
        \A f \in ValidAddForms : \A o \in SaveOutcomes :
            AddRequested(dispatch(AddFormWith(f), "s", o), f)

\* a profile "c" with address "c" and nothing else was added from the Form
C23_ProfileAdded ==
    /\ last_req.op = "add_host"
    /\ last_req.args = [host |-> <<"c">>, hostname |-> <<"c">>, user |-> None,
                        port |-> None, proxy_command |-> None,
                        identity_file |-> None, password |-> None]
    /\ last_req.res.ok

\* in the UI state st, if an Edit Form is open, its first field holds the
\* identifier of the profile being edited and is not the field being edited
EditIdentifierFixed(st) ==
    st.form.show_edit =>
        /\ IsSome(st.form.edit_host_original)
        /\ st.form.fields[1] = Unwrap(st.form.edit_host_original).host
        /\ ~(st.form.editing_field /\ st.form.focus_index = 0)

\* R, the outcome of a key in an open Edit Form, is the same Edit Form with
\* its first field as it must be, or the Form is closed
EditKept(R) ==
    R.ret.ok /\ R.state.form.show_edit =>
        /\ R.state.form.edit_host_original = state.form.edit_host_original
        /\ EditIdentifierFixed(R.state)

\* C24: while an Edit Form is open, with or without the ErrorDialog over
\* it, its first field holds the identifier of the profile being edited and
\* the focus is not on the first field while a field is edited; and every
\* key pressed then (navigation, Enter, Esc, characters with 's' and 'q',
\* Backspace, a save, the dismissal of the ErrorDialog) keeps it so.
C24_EditIdentifierFixed ==
    /\ EditIdentifierFixed(state)
    /\ pc = "events" /\ state.form.show_edit =>
          \A key \in AllKeys : \A o \in SaveOutcomes :
              EditKept(dispatch(CurM, key, o))

\* in an Edit Form a save was refused and the refused field is edited under
\* the ErrorDialog
C24_EditRefusedField ==
    /\ pc = "events" /\ state.form.show_edit
    /\ state.error_modal.show
    /\ state.form.editing_field
    /\ state.form.error_field_index = Some(state.form.focus_index)

\* the word that confirms a deletion
Yes == <<"y", "e", "s">>

\* drafts of the DeleteConfirm input: the word in several cases, the word
\* between blanks, and other texts
DeleteDrafts ==
    {<<>>, Yes, <<"Y", "E", "S">>, <<"Y", "e", "s">>, <<" ", "y", "e", "s">>,
     <<"y", "e", "s", " ">>, <<"n">>, <<"y">>, <<"y", "e">>,
     <<"y", "e", "s", "s">>, <<"y", " ", "e", "s">>, <<" ">>}

\* the drafts the input can hold in the current state: anything typed while
\* DeleteConfirm takes the keys, else what is there
DraftsHere ==
    IF Mode(state) = "delete" THEN DeleteDrafts ELSE {state.delete_confirm.input}

\* the current state with draft as the DeleteConfirm input
WithDraft(draft) == [CurM EXCEPT !.state.delete_confirm.input = draft]

\* if R, the outcome of key, has requested a deletion, then DeleteConfirm
\* took the key, the key was Enter, the draft was as wanted, and the profile
\* is the one the overlay was opened for, the selected one
DeletionJustified(key, R, wanted) ==
    R.req.op = "delete_host" =>
        /\ Mode(state) = "delete" /\ key = "Enter"
        /\ wanted
        /\ state.delete_confirm.host = Some(R.req.args)
        /\ selected < Len(hosts) /\ R.req.args = hosts[selected + 1].host

\* C25 as stated: whenever a key is awaited, a key requests a deletion only
\* if it is Enter in DeleteConfirm with a draft equal to "yes" but for the
\* case of its letters, and then for the profile selected when the overlay
\* was opened.
C25_DeleteOnlyOnYes ==
    pc = "events" =>
        \A key \in AllKeys : \A draft \in DraftsHere :
            \A o \in OutcomesFor(Operator, key) :
                DeletionJustified(key, dispatch(WithDraft(draft), key, o),
                                  to_lowercase(draft) = Yes)

\* C25 amended: whenever a key is awaited, a key requests a deletion only if
\* it is Enter in DeleteConfirm with a draft that, without the blanks around
\* it, equals "yes" but for the case of its letters, and then for the
\* profile selected when the overlay was opened.
C25_DeleteOnlyOnTrimmedYes ==
    pc = "events" =>
        \A key \in AllKeys : \A draft \in DraftsHere :
            \A o \in OutcomesFor(Operator, key) :
                DeletionJustified(key, dispatch(WithDraft(draft), key, o),
                                  to_lowercase(trim(draft)) = Yes)

\* the deletion of a profile was requested and carried out
C25_ProfileDeleted ==
    /\ last_req.op = "delete_host"
    /\ last_req.res.ok
    /\ ~state.delete_confirm.show

\* R, the outcome of a cancelling key in DeleteConfirm, is the main list as
\* it was, with no overlay, no deletion requested and the storage untouched
DeleteCancelled(R) ==
    /\ R.ret.ok /\ ~ends_loop(R)
    /\ Shown(R.state) = {}
    /\ R.req = NoReq /\ R.go = None
    /\ R.cm = [file |-> file, hosts_cache |-> hosts_cache]
    /\ R.hosts = hosts /\ R.selected = selected /\ R.table_state = table_state

\* C26: whenever a key is awaited in DeleteConfirm, Esc, and Enter with a
\* draft other than "yes" (blanks and case aside), close the overlay and
\* leave the main list with no deletion requested and the profile list, the
\* selection and the storage unchanged.
C26_OtherInputCancels ==
    pc = "events" /\ Mode(state) = "delete" =>
        \A draft \in DeleteDrafts : \A o \in SaveOutcomes :
            /\ DeleteCancelled(dispatch(WithDraft(draft), "Esc", o))
            /\ to_lowercase(trim(draft)) # Yes =>
                  DeleteCancelled(dispatch(WithDraft(draft), "Enter", o))

\* R, the outcome of Enter on the row of host, took the route that the
\* pre-check precheck asks for
Routed(R, host, precheck) ==
    /\ R.ret.ok /\ ~ends_loop(R)
    /\ R.req.op = "try_connect_host" /\ R.req.args = host
    /\ precheck = "host_key" =>
          /\ Shown(R.state) = {"HostKeyConfirm"}
          /\ R.state.host_key_confirm =
                [show |-> TRUE, host |-> Some(host), selection |-> 0]
          /\ R.go = None
    /\ precheck = "failed" =>
          /\ Shown(R.state) = {"ErrorDialog"}
          /\ R.go = None
    /\ precheck = "ok" =>
          /\ Shown(R.state) = {}
          /\ R.go = Some([kind |-> "connect", host |-> host])

\* C27: whenever a key is awaited on a non-empty main list, Enter tests the
\* selected profile and then opens HostKeyConfirm for it on a host-key
\* mismatch, ErrorDialog on any other failure, and starts the handoff on
\* success only; and a key that starts no handoff leaves the terminal modes
\* as they are.
C27_PrecheckRoutes ==
    /\ [](pc = "events" /\ Mode(state) = "main" /\ hosts # <<>> =>
            \A o \in AllOutcomes :
                Routed(dispatch(CurM, "Enter", o), hosts[selected + 1].host,
                       o.precheck))
    /\ [][pc = "events" /\ pc' # "handoff" =>
            raw_mode' = raw_mode /\ alt_screen' = alt_screen
            /\ handoff' = NoHandoff]_vars

\* HostKeyConfirm was opened by a connect request for the selected profile
C27_MismatchAsksOperator ==
    /\ pc = "loop" /\ Shown(state) = {"HostKeyConfirm"}
    /\ last_req.op = "try_connect_host"
    /\ state.host_key_confirm.host = Some(hosts[selected + 1].host)
    /\ handoff = NoHandoff

\* C28: whenever the handoff of an accepted host key is about to run its
\* external commands, for every outcome of the purge and of the session the
\* purge is asked for first and the session is retried after it, and the
\* result reported is that of the session alone.
C28_RetryAfterEveryPurge ==
    AtStep("external") /\ handoff.kind = "host_key" =>
        \A keygen \in KeygenOutcomes : \A outcome \in SessionOutcomes :
            /\ host_key_commands(keygen) = <<"ssh-keygen", "ssh">>
            /\ handle_host_key_verification_failed_for_tui(
                   handoff.host, keygen, outcome) = execute_ssh_connection(outcome)

\* R is the current state with HostKeyConfirm closed and nothing else done
HostKeyRejected(R) ==
    /\ R.ret.ok /\ ~ends_loop(R)
    /\ R.go = None /\ R.req = NoReq
    /\ R.state = [state EXCEPT !.host_key_confirm = DefaultHostKeyConfirm]
    /\ R.hosts = hosts /\ R.selected = selected /\ R.table_state = table_state
    /\ R.cm = [file |-> file, hosts_cache |-> hosts_cache]
    /\ R.pending = pending /\ R.threads = threads

\* R is the current state with the choice of HostKeyConfirm set to choice
\* and nothing else done
HostKeyChoice(R, choice) ==
    /\ R.ret.ok /\ ~ends_loop(R)
    /\ R.go = None /\ R.req = NoReq
    /\ R.state = [state EXCEPT !.host_key_confirm.selection = choice]
    /\ R.hosts = hosts /\ R.selected = selected /\ R.table_state = table_state
    /\ R.cm = [file |-> file, hosts_cache |-> hosts_cache]
    /\ R.pending = pending /\ R.threads = threads

\* R, the outcome of key in HostKeyConfirm, starts the purge and retry only
\* on an accept, closes the overlay on a reject, and sets the choice on an
\* arrow key
HostKeyDecided(key, R) ==
    LET hk == state.host_key_confirm
        accept == (key = "Enter" /\ hk.selection = 0) \/ key \in {"y", "Y"}
        reject == (key = "Enter" /\ hk.selection # 0) \/ key \in {"n", "N", "Esc"}
    IN
    /\ IsSome(R.go) <=> accept
    /\ accept => R.go = Some([kind |-> "host_key", host |-> Unwrap(hk.host)])
    /\ reject => HostKeyRejected(R)
    /\ key \in {"Left", "h"} => HostKeyChoice(R, 0)
    /\ key \in {"Right", "l"} => HostKeyChoice(R, 1)

\* C29: whenever a key is awaited in HostKeyConfirm, the purge and retry are
\* started only by Enter with Accept selected or by the accept key; Enter
\* with Reject selected, the reject key and Esc close the overlay with
\* nothing else done; the arrow keys only set the choice.  A purge and retry
\* begins only from HostKeyConfirm, for its profile, and the overlay opens
\* with Accept selected.
C29_PurgeOnlyOnAccept ==
    /\ [](pc = "events" /\ Mode(state) = "host_key" =>
            /\ IsSome(state.host_key_confirm.host)
            /\ \A key \in AllKeys : \A o \in AllOutcomes :
                   HostKeyDecided(key, dispatch(CurM, key, o)))
    /\ [][handoff'.kind = "host_key" /\ handoff.kind # "host_key" =>
            /\ pc = "events" /\ Mode(state) = "host_key"
            /\ handoff'.host = Unwrap(state.host_key_confirm.host)]_vars
    /\ [][~state.host_key_confirm.show /\ state'.host_key_confirm.show =>
            state'.host_key_confirm.selection = 0]_vars

\* a key is awaited in HostKeyConfirm with Reject selected
C29_RejectSelected ==
    /\ pc = "events" /\ Mode(state) = "host_key"
    /\ state.host_key_confirm.selection = 1

\* the kinds of status of a finished connection test
Settled == {"Connected", "Failed"}

\* C30: a connection test ends with the status Connected or Failed, from
\* whatever status it starts and however the connection and the runtime
\* end, and every result in the pending buffer is Connected or Failed.
C30_ProbeResultIsSettled ==
    /\ \A net \in ConnectOutcomes :
          /\ \A status \in {"Unknown", "Connecting", "Connected", "Failed"} :
                test_connection(status, net) \in Settled
          /\ \A rt \in RuntimeOutcomes : thread_result(rt, net) \in Settled
    /\ \A k \in 1..Len(pending) :
          IsSome(pending[k].res) => Unwrap(pending[k].res).kind \in Settled

\* two connection tests have finished, one Connected and one Failed, and
\* their results wait in the buffer
C30_BothKindsPublished ==
    /\ threads = EmptyBag
    /\ \E j, k \in 1..Len(pending) :
          /\ IsSome(pending[j].res) /\ Unwrap(pending[j].res).kind = "Connected"
          /\ IsSome(pending[k].res) /\ Unwrap(pending[k].res).kind = "Failed"

\* the identifiers and the password of the storage requests considered
RequestIds == {<<"a">>, <<"c">>}
RequestPasswords == {None, Some(<<"w">>)}

\* add, edit and delete requests
StorageRequests ==
    [op : {"add_host", "edit_host"}, host : RequestIds, password : RequestPasswords]
        \cup [op : {"delete_host"}, host : RequestIds, password : {None}]

\* the arguments of the add or edit request r
RequestArgs(r) ==
    [host |-> r.host, hostname |-> IF r.op = "add_host" THEN <<"c">> ELSE Some(<<"c">>),
     user |-> None, port |-> None, proxy_command |-> None, identity_file |-> None,
     password |-> r.password]

\* the storage after request r, when its I/O meets outcome o
AfterRequest(cm, r, o) ==
    CASE r.op = "add_host" -> add_host(cm, RequestArgs(r), o).cm
      [] r.op = "edit_host" -> edit_host(cm, RequestArgs(r), o).cm
      [] r.op = "delete_host" -> delete_host(cm, r.host, o).cm

\* in the storage cm no two stored profiles share an identifier, and the
\* list it returns is the stored profiles
IdentifierIsKey(cm) ==
    /\ \A i, j \in 1..Len(cm.file) : cm.file[i].host = cm.file[j].host => i = j
    /\ get_hosts(cm, [fault |-> "none", precheck |-> "ok"]).res = Ok(cm.file)

\* cm, reached by one request, keeps the identifier a key, and so does every
\* storage reached from it by one more request
KeyKept(cm) ==
    /\ IdentifierIsKey(cm)
    /\ \A r \in StorageRequests : \A o \in SaveOutcomes :
          IdentifierIsKey(AfterRequest(cm, r, o))

\* C31: whenever a key is awaited, the stored profiles have pairwise
\* distinct identifiers and are the list the storage returns, and this stays
\* so after any add, edit or delete request and any request after it,
\* whether they succeed or return an error.
C31_IdentifierIsUniqueKey ==
    pc = "events" =>
        /\ IdentifierIsKey([file |-> file, hosts_cache |-> hosts_cache])
        /\ \A r \in StorageRequests : \A o \in SaveOutcomes :
              KeyKept(AfterRequest([file |-> file, hosts_cache |-> hosts_cache], r, o))

\* C32: a merge that runs when every connection-test thread has finished
\* leaves no entry for a row of the list in the pending buffer: each such
\* entry got a result and the merge removed it.
C32_PendingDrains ==
    [][(pc = "loop" /\ pc' = "events" /\ threads = EmptyBag) =>
          \A k \in 1..Len(pending') : pending'[k].idx >= Len(hosts')]_vars

\* row i of the displayed list shows Probing
Probing(i) ==
    /\ pc \in {"loop", "events"}
    /\ i < Len(hosts)
    /\ hosts[i + 1].connection_status.kind = "Connecting"

\* row i of the displayed list shows a result, or Unknown
ShowsOutcome(i) ==
    /\ i < Len(hosts)
    /\ hosts[i + 1].connection_status.kind \in {"Connected", "Failed", "Unknown"}

\* C33: under fair scheduling of the connection-test threads and of the
\* event loop, a row that shows Probing later shows Reachable, Unreachable
\* or Unknown, or the list has lost the row or is no longer displayed.
C33_ProbingEnds ==
    \A i \in 0..(MaxHosts - 1) :
        Probing(i) ~> (ShowsOutcome(i) \/ i >= Len(hosts) \/ pc \notin {"loop", "events"})

\* a row that was probed shows the result of its probe
C33_ProbedRowSettled ==
    /\ pc = "events"
    /\ threads = EmptyBag
    /\ hosts # <<>>
    /\ hosts[1].connection_status.kind \in {"Connected", "Failed"}

\* the list the storage cm gives for the UI state st: the search result when
\* a query is committed, the whole list otherwise
ListFor(cm, st) ==
    IF IsSome(st.search.query)
    THEN search_hosts(cm, Unwrap(st.search.query), [fault |-> "none"]).res.val
    ELSE get_hosts(cm, [fault |-> "none"]).res.val

\* what a returned handoff leaves: the list of the storage (when the storage
\* has a list to give), the selection inside it, no overlay but ErrorDialog
HandedBack(cm, hs, sel, st) ==
    /\ IsSome(cm.hosts_cache) => hs = ListFor(cm, st)
    /\ IF hs = <<>> THEN sel = 0 ELSE sel < Len(hs)
    /\ Shown(st) \subseteq {"ErrorDialog"}

\* C34: no step of a handoff, from the key that starts it to its return,
\* changes the committed query; and when the handoff returns to the event
\* loop the displayed list is search_profiles(query) when a query is
\* committed and list_profiles() otherwise, the selection is inside the list
\* (0 when it is empty) and no overlay but ErrorDialog is shown.
C34_HandoffRefreshes ==
    [][/\ (pc' = "handoff" \/ (pc = "handoff" /\ pc' = "loop")) =>
              state'.search.query = state.search.query
       /\ (pc = "handoff" /\ pc' = "loop") =>
              HandedBack([file |-> file', hosts_cache |-> hosts_cache'],
                         hosts', selected', state')]_vars

\* a handoff has returned with a query committed and the list filtered by it
C34_ReturnedFiltered ==
    /\ pc = "loop"
    /\ handoff = NoHandoff
    /\ last_req.op = "try_connect_host"
    /\ last_req.res.success
    /\ IsSome(state.search.query)
    /\ Len(hosts) < Len(file)
    /\ Shown(state) = {"ErrorDialog"}

\* the statements of a handoff up to the end of its drain
UpToDrain == {"suspend", "external", "resume", "drain"}

\* C35: once the drain statement of a handoff has run, the input queue holds
\* no event that arrived between the start of the handoff and the end of the
\* drain, at every later statement and when the handoff returns to the
\* event loop's poll; only events that arrived later can be delivered.
C35_DrainedBeforePolling ==
    (pc = "handoff" /\ \E i \in 1..Len(handoff.log) : handoff.log[i].step = "drain") =>
        \A k \in 1..Len(handoff.input) : handoff.input[k] \notin UpToDrain

\* a handoff is about to return whose drain found events unread, typed
\* while the external command ran
C35_TypedDuringSession ==
    /\ AtStep("return")
    /\ \E i \in 1..Len(handoff.log) :
          /\ handoff.log[i].step = "drain"
          /\ handoff.log[i].unread > 0

\* the field after and before field i in a Form of n fields, around the
\* list, field 0 left out when editing a profile
NextField(i, n, edit) ==
    IF i + 1 < n THEN i + 1 ELSE IF edit THEN 1 ELSE 0
PreviousField(i, n, edit) ==
    IF i > (IF edit THEN 1 ELSE 0) THEN i - 1 ELSE n - 1

\* the Form fm with focus on field i and editing mode e, all else the same
Focused(fm, i, e) == [fm EXCEPT !.focus_index = i, !.editing_field = e]

\* the Form fm with c typed into, or the last character taken from, the
\* focused field, all else the same
Typed(fm, c) == [fm EXCEPT !.fields[fm.focus_index + 1] = Append(@, c)]
Erased(fm) ==
    [fm EXCEPT !.fields[fm.focus_index + 1] =
        IF @ = <<>> THEN @ ELSE SubSeq(@, 1, Len(@) - 1)]

\* R is what the key must give in the Form of the current state
FormKeyObeyed(key, R) ==
    LET fm == state.form
        n == Len(fm.fields)
        after == R.state.form
        Same == R.state = state /\ R.req = NoReq
        Only(form) == R.state = [state EXCEPT !.form = form] /\ R.req = NoReq
    IN
    /\ (/\ R.ret.ok
        /\ after.show_add \/ after.show_edit
        /\ ~(fm.editing_field /\ (IsChar(key) \/ key = "Backspace")))
          => after.fields = fm.fields
    /\ CASE fm.editing_field /\ IsChar(key) -> Only(Typed(fm, key))
         [] fm.editing_field /\ key = "Backspace" -> Only(Erased(fm))
         [] fm.editing_field /\ key \in {"Tab", "Down", "Up"} -> Same
         [] fm.editing_field /\ key = "Enter" ->
               IF fm.focus_index + 1 < n THEN Only(Focused(fm, fm.focus_index + 1, TRUE))
               ELSE Only(Focused(fm, fm.focus_index, FALSE))
         [] ~fm.editing_field /\ key \in {"Tab", "Down"} ->
               Only(Focused(fm, NextField(fm.focus_index, n, fm.show_edit), FALSE))
         [] ~fm.editing_field /\ key = "Up" ->
               Only(Focused(fm, PreviousField(fm.focus_index, n, fm.show_edit), FALSE))
         [] ~fm.editing_field /\ key = "q" ->
               "Form" \notin Shown(R.state) /\ R.req = NoReq
         [] ~fm.editing_field /\ key = "s" ->
               \/ ~R.ret.ok
               \/ R.req # NoReq
               \/ "ErrorDialog" \in Shown(R.state)
         [] ~fm.editing_field /\ (IsChar(key) \/ key = "Backspace") -> Same
         [] OTHER -> TRUE

\* C36: whenever a key is awaited in a Form, a character or Backspace changes
\* the focused field and nothing else when editing mode is on and nothing at
\* all when it is off; Tab, Down and Up move the focus around the field list
\* (past field 0 in an Edit Form) when editing mode is off and do nothing
\* when it is on; Enter in editing mode goes on to the next field in editing
\* mode, and on the last field ends editing mode and keeps the focus; 's'
\* and 'q' save and cancel when editing mode is off and are typed into the
\* focused field when it is on.
C36_FormKeys ==
    pc = "events" /\ Mode(state) = "form" =>
        \A key \in AllKeys : \A o \in SaveOutcomes :
            FormKeyObeyed(key, dispatch(CurM, key, o))

\* an Edit Form in editing mode on its last field
C36_EditingLastField ==
    /\ pc = "events" /\ Mode(state) = "form"
    /\ state.form.show_edit
    /\ state.form.editing_field
    /\ state.form.focus_index = Len(state.form.fields) - 1

\* the text a Form field shows for an optional value
FieldText(opt) == IF opt = <<>> THEN <<>> ELSE opt[1]

\* the field values of an Edit Form for profile h
EditFields(h) ==
    <<h.host, FieldText(h.hostname), FieldText(h.user), FieldText(h.port),
      FieldText(h.proxy_command), FieldText(h.identity_file), <<>>>>

\* st shows no Form and keeps nothing of one
FormForgotten(st) ==
    "Form" \notin Shown(st) =>
        /\ st.form.fields = <<>>
        /\ ~st.form.editing_field
        /\ st.form.error_field_index = <<>>

\* R is the current state with a fresh Add Form opened
AddOpened(R) ==
    /\ R.state.form.show_add /\ ~R.state.form.show_edit
    /\ R.state.form.fields = [i \in 1..7 |-> <<>>]
    /\ R.state.form.focus_index = 0
    /\ ~R.state.form.editing_field
    /\ R.state.form.error_field_index = <<>>

\* R is the current state with a fresh Edit Form opened on the selected
\* profile
EditOpened(R) ==
    /\ R.state.form.show_edit /\ ~R.state.form.show_add
    /\ R.state.form.fields = EditFields(hosts[selected + 1])
    /\ R.state.form.focus_index = 1
    /\ ~R.state.form.editing_field
    /\ R.state.form.error_field_index = <<>>

\* C37: in every state without a Form the field list is empty, editing mode
\* is off and no error marker is set; and whenever a key is awaited in the
\* main list, 'a' opens an Add Form of seven empty fields with the focus on
\* field 0, and 'e' on a non-empty list opens an Edit Form with the selected
\* profile's values and an empty password with the focus on field 1, both
\* with editing mode off and no error marker.
C37_FormStartsFresh ==
    /\ FormForgotten(state)
    /\ pc = "events" /\ Mode(state) = "main" =>
          \A o \in SaveOutcomes :
              /\ AddOpened(dispatch(CurM, "a", o))
              /\ hosts # <<>> => EditOpened(dispatch(CurM, "e", o))
              /\ \A key \in AllKeys : FormForgotten(dispatch(CurM, key, o).state)

\* an Edit Form is open on a profile that an earlier Form session added
C37_EditAfterAdd ==
    /\ pc = "events" /\ Mode(state) = "form"
    /\ state.form.show_edit
    /\ state.form.fields[1] = <<"c">>
    /\ state.form.focus_index = 1
    /\ ~state.form.editing_field

\* the selection index addresses a row of the list hs
SelectionInside(hs, sel) == hs # <<>> => sel < Len(hs)

\* the keys of the main list that act on the selected profile
SelectedKeys == {"Enter", "e", "d", "t"}

\* C38: in every state the selection index is smaller than the length of a
\* non-empty displayed list, and every key in every mode keeps it so; and
\* whenever a key is awaited in the main list with the list empty, connect,
\* edit, delete and probe leave everything as it is.
C38_SelectionInside ==
    /\ SelectionInside(hosts, selected)
    /\ pc = "events" =>
          \A key \in AllKeys : \A o \in AllOutcomes :
              LET R == dispatch(CurM, key, o) IN
              /\ R.ret.ok => SelectionInside(R.hosts, R.selected)
              /\ (Mode(state) = "main" /\ hosts = <<>> /\ key \in SelectedKeys) =>
                     Untouched(R)

\* the main list is empty, by a search that matches none of the stored
\* profiles
C38_EmptiedList ==
    /\ pc = "events" /\ Mode(state) = "main"
    /\ hosts = <<>>
    /\ Len(file) > 1
    /\ IsSome(state.search.query)

\* the identifiers of the profiles of the list hs, in order
Identifiers(hs) == [i \in 1..Len(hs) |-> hs[i].host]

\* C39: while the event loop runs with the Search overlay closed, the
\* displayed list holds exactly the profiles of the storage that match the
\* committed query, and all of them when no query is committed.
C39_ListMatchesQuery ==
    (pc \in {"loop", "events"} /\ ~state.search.show_popup) =>
        Identifiers(hosts) =
            Identifiers(ListFor([file |-> file, hosts_cache |-> hosts_cache], state))

\* the overlays that take input of their own
InputOverlays == {"Search", "DeleteConfirm", "Form", "HostKeyConfirm"}

\* at most one input overlay, one kind of Form, and ErrorDialog over nothing
\* but a Form
OverlaysExclusive(st) ==
    /\ Cardinality(Shown(st) \cap InputOverlays) <= 1
    /\ ~(st.form.show_add /\ st.form.show_edit)
    /\ "ErrorDialog" \in Shown(st) => Shown(st) \cap InputOverlays \subseteq {"Form"}

\* the save of the Form failed in this step: the storage refused the
\* request, or a field was refused and marked
SaveJustFailed ==
    /\ pc = "events"
    /\ "Form" \in Shown(state) /\ ~state.form.editing_field
    /\ \/ last_req'.op \in {"add_host", "edit_host"} /\ ~last_req'.res.ok
       \/ state'.form.error_field_index # <<>>
    /\ state'.form.fields = state.form.fields
    /\ state'.form.show_add = state.form.show_add
    /\ state'.form.show_edit = state.form.show_edit
    /\ state'.form.edit_host_original = state.form.edit_host_original

\* C40: in every state at most one of Search, DeleteConfirm, Form and
\* HostKeyConfirm is shown, never an Add and an Edit Form together, and
\* ErrorDialog with no other overlay than a Form; ErrorDialog comes to be
\* shown over a Form only in the step in which the save of that Form failed;
\* and Search, DeleteConfirm, Form and HostKeyConfirm come to be shown only
\* in a key step of the main list with no overlay shown.
C40_OverlayDiscipline ==
    /\ []OverlaysExclusive(state)
    /\ [][/\ ("ErrorDialog" \in Shown(state') \ Shown(state) /\ "Form" \in Shown(state'))
              => SaveJustFailed
          /\ (Shown(state') \ Shown(state)) \cap InputOverlays # {}
              => pc = "events" /\ Shown(state) = {}]_vars

\* an Edit Form whose save the storage refused lies under the ErrorDialog
C40_RefusedEditUnderError ==
    /\ pc = "loop"
    /\ Shown(state) = {"ErrorDialog", "Form"}
    /\ state.form.show_edit
    /\ last_req.op = "edit_host"
    /\ ~last_req.res.ok

====
